---- MODULE Spec2Model ----
(***************************************************************************)
(* Modbus RTU: CRC engine, request encoder, response decoder and the       *)
(* blocking master's timing state machine.                                 *)
(*                                                                         *)
(* Bytes are naturals 0..255, 16-bit words are naturals 0..65535, byte     *)
(* strings are sequences of bytes.  A Result is a record with a field ok;  *)
(* Ok carries the value, Err the error variant.                            *)
(***************************************************************************)
EXTENDS Integers, Sequences, FiniteSets, TLC

VARIABLES
    op,         \* pure-function harness: the function that was applied
    arg,        \* pure-function harness: its input
    ret,        \* pure-function harness: its result
    pc,         \* Master: position inside send ("idle" between calls)
    last_tx_elapsed,  \* Master.last_tx, as last_tx.elapsed() in ticks
    baud_rate,  \* Master.baud_rate
    req,        \* the request passed to the running send
    frame,      \* send: the encoded frame
    rd,         \* read: start, the bytes accumulated, the bytes still on the line
    result,     \* what the last send returned
    io,         \* observation of this send: transport calls it made
    wire        \* observation: successful frame transmissions

vars == <<op, arg, ret, pc, last_tx_elapsed, baud_rate, req, frame, rd, result, io, wire>>

harnessVars == <<op, arg, ret>>
masterVars == <<pc, last_tx_elapsed, baud_rate, req, frame, rd, result, io, wire>>

\* Option: Some(v) or None.  Unit is the value of a Result that carries none.
Some(v) == [some |-> TRUE, val |-> v]
None == [some |-> FALSE]
Unit == "()"

Ok(v) == [ok |-> TRUE, val |-> v]
Err(e) == [ok |-> FALSE, err |-> e]

(***************************************************************************)
(* Fixed-width integer helpers.                                            *)
(***************************************************************************)
U8 == 2 ^ 8
U16 == 2 ^ 16

\* x as u8, x as u16: truncating casts.
as_u8(x) == x % U8
as_u16(x) == x % U16

\* u16::to_be_bytes / u16::to_le_bytes / u16::from_be_bytes / u16::from_le_bytes.
to_be_bytes(w) == <<w \div U8, w % U8>>
to_le_bytes(w) == <<w % U8, w \div U8>>
from_be_bytes(hi, lo) == hi * U8 + lo
from_le_bytes(lo, hi) == hi * U8 + lo

\* F applied to the value of x, x being evaluated once.
Stepped(F(_), x) == CHOOSE y \in {F(v) : v \in {x}} : TRUE

\* a ^ b on naturals.
RECURSIVE BitXor(_, _)
BitXor(a, b) ==
    IF a = 0 THEN b
    ELSE IF b = 0 THEN a
    ELSE ((a + b) % 2) + 2 * BitXor(a \div 2, b \div 2)

\* bit j of byte b (b & (1 << j) != 0).
BitSet(b, j) == (b \div (2 ^ j)) % 2 = 1

(***************************************************************************)
(* CRC engine.                                                             *)
(***************************************************************************)
CRC_INIT == 65535
CRC_POLY == 40961

\* One of the 8 rounds: shift right, XOR the polynomial when the bit shifted
\* out was 1.
CrcRound_wrong_poly(crc) ==
    IF crc % 2 # 0 THEN BitXor(crc \div 2, 33800) ELSE crc \div 2

CrcRound(crc) ==
    IF crc % 2 # 0 THEN BitXor(crc \div 2, CRC_POLY) ELSE crc \div 2

\* One input byte: XOR into the low byte, then 8 rounds.
CrcByte(crc, byte) ==
    Stepped(CrcRound, Stepped(CrcRound, Stepped(CrcRound, Stepped(CrcRound,
    Stepped(CrcRound, Stepped(CrcRound, Stepped(CrcRound, Stepped(CrcRound,
        Stepped(LAMBDA c : BitXor(c, byte), crc)))))))))

\* The loop over data[lo..hi], split in halves to keep the nesting shallow.
RECURSIVE CrcFold(_, _, _, _)
CrcFold(data, lo, hi, crc) ==
    IF lo > hi THEN crc
    ELSE IF lo = hi THEN CrcByte(crc, data[lo])
    ELSE LET mid == (lo + hi) \div 2
         IN  Stepped(LAMBDA left : CrcFold(data, mid + 1, hi, left),
                     CrcFold(data, lo, mid, crc))

\* utils::crc16_modbus: the CRC as two bytes, low byte first.
crc16_modbus(data) == to_le_bytes(CrcFold(data, 1, Len(data), CRC_INIT))

\* crc::generate: the CRC as a u16.
generate(bytes) == CrcFold(bytes, 1, Len(bytes), CRC_INIT)

\* crc::validate: the frame's trailing two bytes, little-endian, against the
\* CRC of the bytes before them.
validate(bytes) ==
    LET len == Len(bytes)
        received == from_le_bytes(bytes[len - 1], bytes[len])
        Compared(expected) ==
            IF expected = received
            THEN Ok(Unit)
            ELSE Err([kind |-> "CRCMismatch", expected |-> expected, received |-> received])
    IN  Stepped(Compared, generate(SubSeq(bytes, 1, len - 2)))

(***************************************************************************)
(* Code tables.                                                            *)
(***************************************************************************)
ReadKinds == {"ReadCoils", "ReadDiscreteInputs", "ReadHoldingRegisters", "ReadInputRegisters"}
WriteKinds == {"WriteSingleCoil", "WriteSingleRegister", "WriteMultipleCoils", "WriteMultipleRegisters"}
FunctionKind == ReadKinds \cup WriteKinds

\* FunctionKind::as_code.
FunctionKind_as_code(kind) ==
    CASE kind = "ReadCoils" -> 1
      [] kind = "ReadDiscreteInputs" -> 2
      [] kind = "ReadHoldingRegisters" -> 3
      [] kind = "ReadInputRegisters" -> 4
      [] kind = "WriteSingleCoil" -> 5
      [] kind = "WriteSingleRegister" -> 6
      [] kind = "WriteMultipleCoils" -> 15
      [] kind = "WriteMultipleRegisters" -> 16

\* FunctionKind::from_code: Some(kind), or None for an unsupported code.
FunctionKind_from_code(code) ==
    IF \E k \in FunctionKind : FunctionKind_as_code(k) = code
    THEN Some(CHOOSE k \in FunctionKind : FunctionKind_as_code(k) = code)
    ELSE None

\* Exception::from_code and Exception::as_code.
Exception_from_code_dense(code) ==
    CASE code = 1 -> [variant |-> "IllegalFunction"]
      [] code = 2 -> [variant |-> "IllegalDataAddress"]
      [] code = 3 -> [variant |-> "IllegalDataValue"]
      [] code = 4 -> [variant |-> "DeviceFailure"]
      [] code = 5 -> [variant |-> "Acknowledge"]
      [] code = 6 -> [variant |-> "DeviceBusy"]
      [] code = 7 -> [variant |-> "MemoryParityError"]
      [] code = 8 -> [variant |-> "GatewayPathUnavailable"]
      [] code = 9 -> [variant |-> "GatewayTargetDeviceFailedToRespond"]
      [] OTHER -> [variant |-> "Undefined", code |-> code]

Exception_from_code(code) ==
    CASE code = 1 -> [variant |-> "IllegalFunction"]
      [] code = 2 -> [variant |-> "IllegalDataAddress"]
      [] code = 3 -> [variant |-> "IllegalDataValue"]
      [] code = 4 -> [variant |-> "DeviceFailure"]
      [] code = 5 -> [variant |-> "Acknowledge"]
      [] code = 6 -> [variant |-> "DeviceBusy"]
      [] code = 8 -> [variant |-> "MemoryParityError"]
      [] code = 10 -> [variant |-> "GatewayPathUnavailable"]
      [] code = 11 -> [variant |-> "GatewayTargetDeviceFailedToRespond"]
      [] OTHER -> [variant |-> "Undefined", code |-> code]

Exception_as_code(e) ==
    CASE e.variant = "Undefined" -> e.code
      [] e.variant = "IllegalFunction" -> 1
      [] e.variant = "IllegalDataAddress" -> 2
      [] e.variant = "IllegalDataValue" -> 3
      [] e.variant = "DeviceFailure" -> 4
      [] e.variant = "Acknowledge" -> 5
      [] e.variant = "DeviceBusy" -> 6
      [] e.variant = "MemoryParityError" -> 8
      [] e.variant = "GatewayPathUnavailable" -> 10
      [] e.variant = "GatewayTargetDeviceFailedToRespond" -> 11

(***************************************************************************)
(* Function encoder.  A Function is a record: kind, and starting_address   *)
(* with quantity (reads), address with value (single writes) or            *)
(* starting_address with the value list (multiple writes).                 *)
(***************************************************************************)
\* The size ceilings of the default build (feature unlimited_packet_size off).
ReadBitsTooBig_2048(quantity) == quantity > 2048
ReadBitsTooBig(quantity) == quantity > 2008

ReadRegistersTooBig(quantity) == quantity > 125

WriteCoilsTooBig(quantity) == quantity > 1976

WriteRegistersTooBig(quantity) == quantity > 123

\* One chunk of up to 8 coils packed into a byte, coil i of the chunk at bit i.
RECURSIVE PackChunk(_, _, _)
PackChunk(value, first, last) ==
    IF first > last THEN 0
    ELSE (IF value[first] THEN 1 ELSE 0) + 2 * PackChunk(value, first + 1, last)

\* value.chunks(8), each chunk packed.
PackCoils(value) ==
    LET n == Len(value)
        Min(a, b) == IF a < b THEN a ELSE b
    IN  [k \in 1..((n + 7) \div 8) |-> PackChunk(value, 8 * (k - 1) + 1, Min(8 * k, n))]

\* Each register as two bytes, high byte first.
RegistersBE(value) ==
    [i \in 1..(2 * Len(value)) |->
        IF i % 2 = 1 THEN value[(i + 1) \div 2] \div U8 ELSE value[i \div 2] % U8]

\* Function::to_bytes: function code followed by the fields.
Function_to_bytes(f) ==
    LET code == FunctionKind_as_code(f.kind) IN
    CASE f.kind \in {"ReadCoils", "ReadDiscreteInputs"} ->
            IF ReadBitsTooBig(f.quantity)
            THEN Err("ResponseWillTooBig")
            ELSE Ok(<<code>> \o to_be_bytes(f.starting_address) \o to_be_bytes(f.quantity))
      [] f.kind \in {"ReadHoldingRegisters", "ReadInputRegisters"} ->
            IF ReadRegistersTooBig(f.quantity)
            THEN Err("ResponseWillTooBig")
            ELSE Ok(<<code>> \o to_be_bytes(f.starting_address) \o to_be_bytes(f.quantity))
      [] f.kind = "WriteSingleCoil" ->
            Ok(<<code>> \o to_be_bytes(f.address) \o <<IF f.value THEN 255 ELSE 0, 0>>)
      [] f.kind = "WriteSingleRegister" ->
            Ok(<<code>> \o to_be_bytes(f.address) \o to_be_bytes(f.value))
      [] f.kind = "WriteMultipleCoils" ->
            LET quantity == as_u16(Len(f.value))
                byte_count == as_u8((quantity + 7) \div 8)
            IN  IF WriteCoilsTooBig(quantity)
                THEN Err("RequestTooBig")
                ELSE Ok(<<code>> \o to_be_bytes(f.starting_address) \o to_be_bytes(quantity)
                        \o <<byte_count>> \o PackCoils(f.value))
      [] f.kind = "WriteMultipleRegisters" ->
            LET quantity == as_u16(Len(f.value))
                byte_count == as_u8(quantity * 2)
            IN  IF WriteRegistersTooBig(quantity)
                THEN Err("RequestTooBig")
                ELSE Ok(<<code>> \o to_be_bytes(f.starting_address) \o to_be_bytes(quantity)
                        \o <<byte_count>> \o RegistersBE(f.value))

(***************************************************************************)
(* Request: modbus_id, function, timeout.                                  *)
(***************************************************************************)
\* The Function variants, and Request::new.
ReadFunction(kind, a, q) == [kind |-> kind, starting_address |-> a, quantity |-> q]
SingleFunction(kind, a, v) == [kind |-> kind, address |-> a, value |-> v]
MultipleFunction(kind, a, v) == [kind |-> kind, starting_address |-> a, value |-> v]

Request_new(modbus_id, function, timeout) ==
    [modbus_id |-> modbus_id, function |-> function, timeout |-> timeout]

\* Request::is_broadcasting.
is_broadcasting_never(r) == FALSE
is_broadcasting(r) == r.modbus_id = 0

\* The broadcast guard of Request::to_bytes.
CannotBroadcast_any_kind(r) == is_broadcasting(r)
CannotBroadcast(r) == is_broadcasting(r) /\ r.function.kind \in ReadKinds

\* Request::to_bytes: device id, function payload, CRC low byte first.
Request_to_bytes(r) ==
    IF CannotBroadcast(r)
    THEN Err("CannotBroadcast")
    ELSE LET bytes == Function_to_bytes(r.function)
         IN  IF ~bytes.ok
             THEN bytes
             ELSE LET buf == <<r.modbus_id>> \o bytes.val
                  IN  Ok(buf \o to_le_bytes(generate(buf)))

(***************************************************************************)
(* Response decoder.  A Response is a record with a field variant: Status  *)
(* or Value with a list, Success, or Exception with the exception.         *)
(* checked is the build's overflow-checks setting: an overflowing u8       *)
(* operation panics when it is on and wraps when it is off.  A panic is    *)
(* the Err whose kind is "panic".                                          *)
(***************************************************************************)
Panic(what) == Err([kind |-> "panic", what |-> what])
InvalidFormat == Err([kind |-> "InvalidFormat"])

Response_Success == [variant |-> "Success"]
Response_Exception(e) == [variant |-> "Exception", exception |-> e]
Response_Status(list) == [variant |-> "Status", list |-> list]
Response_Value(list) == [variant |-> "Value", list |-> list]

\* The Read Coils / Read Discrete Inputs branch; packet is the frame without
\* device id, function code and CRC.
DecodeBits(quantity, packet, checked) ==
    LET byte_count == packet[1]
        q8 == as_u8(quantity)
        count == IF quantity < 8 * (Len(packet) - 1) THEN quantity ELSE 8 * (Len(packet) - 1)
    IN  IF checked /\ q8 + 7 >= U8
        THEN Panic("attempt to add with overflow")
        ELSE IF byte_count < as_u8(q8 + 7) \div 8
        THEN InvalidFormat
        ELSE IF Len(packet) < byte_count + 1
        THEN InvalidFormat
        ELSE Ok(Response_Status(
                [k \in 1..count |-> BitSet(packet[2 + ((k - 1) \div 8)], (k - 1) % 8)]))

\* The Read Holding Registers / Read Input Registers branch.
DecodeRegisters(quantity, packet, checked) ==
    LET byte_count == packet[1]
        q8 == as_u8(quantity)
    IN  IF checked /\ q8 * 2 >= U8
        THEN Panic("attempt to multiply with overflow")
        ELSE IF byte_count < as_u8(q8 * 2)
        THEN InvalidFormat
        ELSE IF Len(packet) < byte_count + 1
        THEN InvalidFormat
        ELSE IF quantity > 0 /\ 2 * quantity + 1 > Len(packet)
        THEN Panic("index out of bounds")
        ELSE Ok(Response_Value(
                [k \in 1..quantity |-> from_be_bytes(packet[2 * k], packet[2 * k + 1])]))

\* The write branches: the reply echoes the address and the value (single
\* writes) or the number of values (multiple writes).
DecodeEcho(f, packet) ==
    LET req_address == IF f.kind \in {"WriteSingleCoil", "WriteSingleRegister"}
                       THEN f.address ELSE f.starting_address
        req_second == CASE f.kind = "WriteSingleCoil" -> (IF f.value THEN 65280 ELSE 0)
                        [] f.kind = "WriteSingleRegister" -> f.value
                        [] OTHER -> as_u16(Len(f.value))
    IN  IF Len(packet) # 4
        THEN InvalidFormat
        ELSE IF req_address # from_be_bytes(packet[1], packet[2])
                \/ req_second # from_be_bytes(packet[3], packet[4])
        THEN InvalidFormat
        ELSE Ok(Response_Success)

\* The slice from_bytes hands to crc::validate.
CrcCheckedSlice(bytes) == SubSeq(bytes, 1, Len(bytes) - 2)

\* Response::from_bytes.
from_bytes(request, bytes, checked) ==
    LET len == Len(bytes) IN
    IF len < 5
    THEN Err([kind |-> "TooShort", len |-> len])
    ELSE LET function_code == bytes[2]
             function_kind == FunctionKind_from_code(function_code)
             packet == SubSeq(bytes, 3, len - 2)
             f == request.function
             AfterCrc(crc) ==
                 IF ~crc.ok
                 THEN crc
                 ELSE IF BitSet(function_code, 7)
                 THEN Ok(Response_Exception(Exception_from_code(bytes[3])))
                 ELSE IF bytes[1] # request.modbus_id
                 THEN Err([kind |-> "UnexpectedResponder", id |-> bytes[1]])
                 ELSE IF ~function_kind.some
                 THEN InvalidFormat
                 ELSE IF function_kind.val # f.kind
                 THEN InvalidFormat
                 ELSE CASE f.kind \in {"ReadCoils", "ReadDiscreteInputs"} ->
                              DecodeBits(f.quantity, packet, checked)
                        [] f.kind \in {"ReadHoldingRegisters", "ReadInputRegisters"} ->
                              DecodeRegisters(f.quantity, packet, checked)
                        [] OTHER -> DecodeEcho(f, packet)
         IN  Stepped(AfterCrc, validate(CrcCheckedSlice(bytes)))

(***************************************************************************)
(* Master.  Time is counted in ticks of 1/TicksPerSecond second and may    *)
(* pass between any two steps.  The code reads its Instants only through   *)
(* elapsed(), so each Instant is kept as the time elapsed since it, which  *)
(* every tick advances; MaxElapsed, above every idle time and timeout of   *)
(* the model, stands for any longer time.  The serial port is the          *)
(* environment: each call on it succeeds or fails, and read delivers the   *)
(* next burst of the bytes on the line, nothing, or a time-out.            *)
(***************************************************************************)
TicksPerSecond == 1000
BITS_PER_CHAR == 10
BUF_LEN == 256

Bauds == {35000, 17500}
MaxTimeout == 2
MaxElapsed == 3

\* Master::idle_time_rs485: 3.5 characters at baud_rate.
idle_time_rs485(baud) == (35 * BITS_PER_CHAR * TicksPerSecond) \div (10 * baud)

\* The guard of send's wait loop is the negation of this: the loop sleeps
\* while last_tx.elapsed() <= idle time.
IdleElapsed_or_equal(elapsed, baud) == elapsed >= idle_time_rs485(baud)
IdleElapsed(elapsed, baud) == elapsed > idle_time_rs485(baud)

\* The guard of read's loop: start.elapsed() <= timeout.
WithinTimeout_always(elapsed, timeout) == TRUE

WithinTimeout(elapsed, timeout) == elapsed <= timeout

Later(elapsed) == IF 0 <= elapsed /\ elapsed < MaxElapsed THEN elapsed + 1 ELSE elapsed

IoError(kind) == Err([kind |-> "IO", io |-> kind])

\* What is observed of one send: how many calls it made on the port (counted
\* up to MaxCalls), the frame write_all took, whether last_tx was assigned,
\* whether read's loop ended on the request's timeout, the number of bytes
\* received and the number handed to the decoder (-1: the decoder was not
\* called).
MaxCalls == 2
Count(n) == IF n < MaxCalls THEN n + 1 ELSE n

\* quiet: how the latest read attempt that brought no byte after at least one
\* had arrived returned; late: the same, for the latest such attempt that was
\* followed by another read attempt.
NoCalls == [clears |-> 0, writes |-> 0, reads |-> 0, written |-> <<>>,
            stamped |-> FALSE, expired |-> FALSE, received |-> 0, decoded |-> -1,
            quiet |-> "no", late |-> "no"]

\* The bookkeeping of one read attempt that returned how, with n new bytes.
ReadAttempt(how, n) ==
    [io EXCEPT !.reads = Count(@),
               !.late = IF io.quiet # "no" THEN io.quiet ELSE @,
               !.quiet = IF n = 0 /\ Len(rd.buf) > 0 THEN how ELSE @]

\* read's locals: start (as the time elapsed since it) and the filled part of
\* buf; line is what the serial line still holds, burst by burst.
NoRead == [start_elapsed |-> -1, buf |-> <<>>, line |-> <<>>]

\* What is observed of the line: the time since write_all last took a frame
\* (-1: it never did) and, from there until write assigns last_tx, the time
\* the line had been silent before that frame (-1 otherwise, and for the
\* first frame).
NoFrames == [elapsed |-> -1, silence |-> -1]

Returned == pc = "idle" /\ result # None

\* Master::set_baudrate: port_ok is whether set_baud_rate and set_timeout both
\* succeed; when one fails, the ? returns before any field is assigned.  The
\* port's own settings are the environment's and the Master never reads them.
SetBaudrate(b, port_ok) ==
    /\ pc = "idle"
    /\ IF port_ok
       THEN /\ baud_rate' = b
            /\ last_tx_elapsed' = 0
       ELSE UNCHANGED <<baud_rate, last_tx_elapsed>>
    /\ result' = None
    /\ req' = None
    /\ io' = NoCalls
    /\ UNCHANGED <<pc, frame, rd, wire, harnessVars>>

\* Master::send is entered.
SendCall(r) ==
    /\ pc = "idle"
    /\ pc' = "wait"
    /\ req' = r
    /\ result' = None
    /\ io' = NoCalls
    /\ UNCHANGED <<last_tx_elapsed, baud_rate, frame, rd, wire, harnessVars>>

\* send, the wait loop's test: sleep again, or go on to encode.
SendWaitStep ==
    /\ pc = "wait"
    /\ pc' = IF IdleElapsed(last_tx_elapsed, baud_rate) THEN "encode" ELSE "wait_sleep"
    /\ UNCHANGED <<last_tx_elapsed, baud_rate, req, frame, rd, result, io, wire, harnessVars>>

\* send, the wait loop's sleep of one microsecond returns.
SendWaitSleep ==
    /\ pc = "wait_sleep"
    /\ pc' = "wait"
    /\ UNCHANGED <<last_tx_elapsed, baud_rate, req, frame, rd, result, io, wire, harnessVars>>

\* send: req.to_bytes(), returning the request error on failure.
SendEncode_clear_first ==
    /\ pc = "encode"
    /\ io' = [io EXCEPT !.clears = Count(@)]
    /\ LET bytes == Request_to_bytes(req)
       IN  IF bytes.ok
           THEN /\ frame' = bytes.val
                /\ pc' = "write"
                /\ UNCHANGED result
           ELSE /\ result' = Err([kind |-> "Request", request |-> bytes.err])
                /\ pc' = "idle"
                /\ UNCHANGED frame
    /\ UNCHANGED <<last_tx_elapsed, baud_rate, req, rd, wire, harnessVars>>

SendEncode ==
    /\ pc = "encode"
    /\ LET bytes == Request_to_bytes(req)
       IN  IF bytes.ok
           THEN /\ frame' = bytes.val
                /\ pc' = "clear"
                /\ UNCHANGED result
           ELSE /\ result' = Err([kind |-> "Request", request |-> bytes.err])
                /\ pc' = "idle"
                /\ UNCHANGED frame
    /\ UNCHANGED <<last_tx_elapsed, baud_rate, req, rd, io, wire, harnessVars>>

\* send: port.clear(Output).
SendClear(port_ok) ==
    /\ pc = "clear"
    /\ io' = [io EXCEPT !.clears = Count(@)]
    /\ IF port_ok
       THEN pc' = "write" /\ UNCHANGED <<result, frame>>
       ELSE pc' = "idle" /\ result' = IoError("Other") /\ frame' = <<>>
    /\ UNCHANGED <<last_tx_elapsed, baud_rate, req, rd, wire, harnessVars>>

\* write: port.write_all(frame).
SendWriteAll(port_ok) ==
    /\ pc = "write"
    /\ IF port_ok
       THEN /\ pc' = "stamp"
            /\ io' = [io EXCEPT !.writes = Count(@), !.written = frame]
            /\ wire' = [elapsed |-> 0, silence |-> wire.elapsed]
            /\ UNCHANGED <<result, frame>>
       ELSE /\ pc' = "idle"
            /\ io' = [io EXCEPT !.writes = Count(@)]
            /\ result' = IoError("Other")
            /\ frame' = <<>>
            /\ UNCHANGED wire
    /\ UNCHANGED <<last_tx_elapsed, baud_rate, req, rd, harnessVars>>

\* write records the transmit instant; send returns Success for a broadcast
\* and otherwise starts to sleep one idle time.
SendStamp ==
    /\ pc = "stamp"
    /\ last_tx_elapsed' = 0
    /\ io' = [io EXCEPT !.stamped = TRUE]
    /\ frame' = <<>>
    /\ wire' = [wire EXCEPT !.silence = -1]
    /\ IF is_broadcasting(req)
       THEN /\ pc' = "idle"
            /\ result' = Ok(Response_Success)
            /\ UNCHANGED rd
       ELSE /\ pc' = "sleep"
            /\ rd' = [rd EXCEPT !.start_elapsed = 0]
            /\ UNCHANGED result
    /\ UNCHANGED <<baud_rate, req, harnessVars>>

\* x followed by its CRC, low byte first.
Sealed(x) == x \o crc16_modbus(x)

\* The body (device id, function code, payload) of the reply a slave gives to
\* a request it carried out.
NormalBody(r) ==
    LET f == r.function
        code == FunctionKind_as_code(f.kind)
    IN  CASE f.kind \in {"ReadCoils", "ReadDiscreteInputs"} ->
                <<r.modbus_id, code, (f.quantity + 7) \div 8>>
                \o [i \in 1..((f.quantity + 7) \div 8) |-> 1]
          [] f.kind \in {"ReadHoldingRegisters", "ReadInputRegisters"} ->
                <<r.modbus_id, code, 2 * f.quantity>>
                \o [i \in 1..(2 * f.quantity) |-> IF i % 2 = 1 THEN 0 ELSE 16 * (i \div 2)]
          [] f.kind \in {"WriteSingleCoil", "WriteSingleRegister"} ->
                <<r.modbus_id>> \o Function_to_bytes(f).val
          [] OTHER ->
                <<r.modbus_id, code>> \o to_be_bytes(f.starting_address)
                \o to_be_bytes(as_u16(Len(f.value)))

ExceptionBody(r, code) == <<r.modbus_id, FunctionKind_as_code(r.function.kind) + 128, code>>

\* More bytes than the read buffer holds.
LongLine == [i \in 1..(BUF_LEN + 2) |-> i % U8]

\* What the line may deliver after a request: nothing, a reply with its CRC,
\* a reply with its CRC followed by two zero bytes, or a long run of bytes.
Replies(r) ==
    {<<>>, LongLine, Sealed(NormalBody(r))}
    \cup {Sealed(b) \o <<0, 0>> : b \in {NormalBody(r), ExceptionBody(r, 2)}}

\* The bytes arrive in one burst or in two, the first of FirstBurst bytes.
FirstBurst == 3

Bursts(bytes) ==
    IF bytes = <<>> THEN {<<>>}
    ELSE {<<bytes>>}
         \cup (IF Len(bytes) > FirstBurst
               THEN {<<SubSeq(bytes, 1, FirstBurst), SubSeq(bytes, FirstBurst + 1, Len(bytes))>>}
               ELSE {})

\* send: the sleep of one idle time after the frame is over; read starts.
SendSleep ==
    /\ pc = "sleep"
    /\ rd.start_elapsed >= idle_time_rs485(baud_rate)
    /\ pc' = "read"
    /\ \E bytes \in Replies(req) : \E line \in Bursts(bytes) :
            rd' = [start_elapsed |-> 0, buf |-> <<>>, line |-> line]
    /\ UNCHANGED <<last_tx_elapsed, baud_rate, req, frame, result, io, wire, harnessVars>>

\* read, the loop's test.
ReadStep ==
    /\ pc = "read"
    /\ pc' = IF WithinTimeout(rd.start_elapsed, req.timeout) THEN "read_call" ELSE "read_done"
    /\ io' = [io EXCEPT !.expired = ~WithinTimeout(rd.start_elapsed, req.timeout)]
    /\ UNCHANGED <<last_tx_elapsed, baud_rate, req, frame, rd, result, wire, harnessVars>>

\* read: port.read(&mut buf[len..]) returns Ok(n): nothing, or the next burst
\* as far as the buffer has room for it.
ReadData ==
    /\ pc = "read_call"
    /\ \E take \in BOOLEAN :
        LET space == BUF_LEN - Len(rd.buf)
            burst == IF take /\ rd.line # <<>> THEN Head(rd.line) ELSE <<>>
            n == IF Len(burst) < space THEN Len(burst) ELSE space
            rest == SubSeq(burst, n + 1, Len(burst))
        IN  /\ rd' = [rd EXCEPT
                        !.buf = rd.buf \o SubSeq(burst, 1, n),
                        !.line = IF burst = <<>> THEN rd.line
                                 ELSE IF rest = <<>> THEN Tail(rd.line)
                                 ELSE <<rest>> \o Tail(rd.line)]
            /\ pc' = IF Len(rd.buf) + n >= BUF_LEN THEN "read_done" ELSE "read"
            /\ io' = ReadAttempt("Ok(0)", n)
    /\ UNCHANGED <<last_tx_elapsed, baud_rate, req, frame, result, wire, harnessVars>>

\* read: port.read returns Err(TimedOut).
ReadTimedOut ==
    /\ pc = "read_call"
    /\ pc' = IF Len(rd.buf) = 0 THEN "read" ELSE "read_done"
    /\ io' = ReadAttempt("TimedOut", 0)
    /\ UNCHANGED <<last_tx_elapsed, baud_rate, req, frame, rd, result, wire, harnessVars>>

\* read: port.read returns another error, which send returns.
ReadFailed ==
    /\ pc = "read_call"
    /\ pc' = "idle"
    /\ result' = IoError("Other")
    /\ io' = [ReadAttempt("Other", 1) EXCEPT !.received = Len(rd.buf)]
    /\ rd' = NoRead
    /\ UNCHANGED <<last_tx_elapsed, baud_rate, req, frame, wire, harnessVars>>

\* send's test of what read returned: len == 0.
NothingRead_never(buf) == FALSE
NothingRead(buf) == Len(buf) = 0

\* send, after read returned Ok(len): timed out on no byte at all, otherwise
\* the decoder's answer.
SendReturn ==
    /\ pc = "read_done"
    /\ pc' = "idle"
    /\ IF NothingRead(rd.buf)
       THEN /\ result' = IoError("TimedOut")
            /\ UNCHANGED io
       ELSE /\ \E checked \in BOOLEAN :
                LET MapErr(r) == IF r.ok \/ r.err.kind = "panic"
                                 THEN r
                                 ELSE Err([kind |-> "Response", response |-> r.err])
                IN  result' = Stepped(MapErr, from_bytes(req, rd.buf, checked))
            /\ io' = [io EXCEPT !.received = Len(rd.buf), !.decoded = Len(rd.buf)]
    /\ rd' = NoRead
    /\ UNCHANGED <<last_tx_elapsed, baud_rate, req, frame, wire, harnessVars>>

\* Time passes.
Tick ==
    /\ pc # "off"
    /\ \/ last_tx_elapsed < MaxElapsed
       \/ 0 <= rd.start_elapsed /\ rd.start_elapsed < MaxElapsed
       \/ 0 <= wire.elapsed /\ wire.elapsed < MaxElapsed
    /\ last_tx_elapsed' = Later(last_tx_elapsed)
    /\ rd' = [rd EXCEPT !.start_elapsed = Later(@)]
    /\ wire' = [wire EXCEPT !.elapsed = Later(@)]
    /\ UNCHANGED <<pc, baud_rate, req, frame, result, io, harnessVars>>

MasterRequests ==
    {Request_new(id, f, 1) :
        id \in {0, 1},
        f \in {ReadFunction("ReadHoldingRegisters", 0, 2),
               ReadFunction("ReadCoils", 0, 2009),
               SingleFunction("WriteSingleRegister", 16, 43981)}}
    \cup {Request_new(1, ReadFunction("ReadHoldingRegisters", 0, 2), d) : d \in 1..MaxTimeout}

\* Master::new_rs485: last_tx is one idle time in the past.
Init ==
    /\ op = "master" /\ arg = None /\ ret = None
    /\ pc = "idle"
    /\ baud_rate \in Bauds
    /\ last_tx_elapsed = idle_time_rs485(baud_rate)
    /\ req = None
    /\ frame = <<>>
    /\ rd = NoRead
    /\ result = None
    /\ io = NoCalls
    /\ wire = NoFrames

Next ==
    \/ Tick
    \/ \E b \in Bauds, port_ok \in BOOLEAN : SetBaudrate(b, port_ok)
    \/ \E r \in MasterRequests : SendCall(r)
    \/ SendWaitStep
    \/ SendWaitSleep
    \/ SendEncode
    \/ \E port_ok \in BOOLEAN : SendClear(port_ok)
    \/ \E port_ok \in BOOLEAN : SendWriteAll(port_ok)
    \/ SendStamp
    \/ SendSleep
    \/ ReadStep
    \/ ReadData
    \/ ReadTimedOut
    \/ ReadFailed
    \/ SendReturn

Spec == Init /\ [][Next]_vars

(***************************************************************************)
(* Master properties.                                                      *)
(***************************************************************************)
Encodes(r) == Request_to_bytes(r).ok

\* C1: whenever write_all takes a frame and the Master has put a frame on the
\* line before, more than the idle time of 3.5 characters at the Master's
\* baud rate has passed since that earlier frame.
C1_SilentInterval ==
    (pc = "stamp" /\ wire.silence # -1) => wire.silence > idle_time_rs485(baud_rate)

C1_Witness ==
    /\ pc = "stamp"
    /\ wire.silence = idle_time_rs485(baud_rate) + 1
    /\ wire.elapsed = 0

\* C2: a send whose request does not encode makes no call on the port and
\* does not assign last_tx, and it returns the encoder's error as a request
\* error.
C2_EncodeFailure ==
    (pc # "off" /\ req # None /\ ~Encodes(req)) =>
        /\ io = NoCalls
        /\ pc \in {"idle", "wait", "wait_sleep", "encode"}
        /\ Returned =>
            result = Err([kind |-> "Request", request |-> Request_to_bytes(req).err])

C2_Witness ==
    /\ Returned
    /\ req # None
    /\ req.modbus_id = 1
    /\ result = Err([kind |-> "Request", request |-> "ResponseWillTooBig"])
    /\ wire.elapsed >= 0

\* C3 as stated: a send of a broadcast request that encodes writes the frame,
\* assigns last_tx and returns Success, and reads nothing.
C3_BroadcastAlwaysSucceeds ==
    (Returned /\ req # None /\ req.modbus_id = 0 /\ Encodes(req)) =>
        /\ io.written = Request_to_bytes(req).val
        /\ io.stamped
        /\ result = Ok(Response_Success)
        /\ io.reads = 0

\* C3: a send of a broadcast request that encodes never sleeps for a reply
\* and never reads; when clear and write_all both succeed it has written
\* the frame and assigned last_tx and it returns Success, and otherwise it
\* returns the port's error and last_tx is not assigned.
C3_Broadcast ==
    (pc # "off" /\ req # None /\ req.modbus_id = 0 /\ Encodes(req)) =>
        /\ io.reads = 0
        /\ pc \notin {"sleep", "read", "read_call", "read_done"}
        /\ Returned =>
            \/ /\ io.clears = 1 /\ io.writes = 1
               /\ io.written = Request_to_bytes(req).val
               /\ io.stamped
               /\ result = Ok(Response_Success)
            \/ /\ io.written = <<>>
               /\ ~io.stamped
               /\ result = IoError("Other")

C3_Witness ==
    /\ Returned
    /\ req # None
    /\ req.modbus_id = 0
    /\ result = Ok(Response_Success)
    /\ io.written = Sealed(<<0, 6, 0, 16, 171, 205>>)
    /\ io.stamped
    /\ io.reads = 0

\* C15: a send whose read loop ended on the request's timeout returns the
\* I/O error TimedOut and hands nothing to the decoder.
C15_TimeoutAbandons ==
    (Returned /\ io.expired) => (result = IoError("TimedOut") /\ io.decoded = -1)

\* C15 for the sends that received no byte.
C15_TimeoutAbandons_NoByte ==
    (Returned /\ io.expired /\ io.received = 0) => C15_TimeoutAbandons

\* C16 as stated: a send to a device that has received no byte when its
\* read phase is over returns the I/O error TimedOut without calling the
\* decoder, and does not return Ok.
C16_NoByteAlwaysTimedOut ==
    (Returned /\ req # None /\ req.modbus_id # 0 /\ io.stamped /\ io.received = 0) =>
        (result = IoError("TimedOut") /\ io.decoded = -1)

\* C16: a send to a device that has received no byte when its read phase is
\* over does not call the decoder and does not return Ok; it returns the I/O
\* error TimedOut when read's loop ended on the timeout, and the error of
\* port.read when that call failed.
C16_NoByteNoDecode ==
    (Returned /\ req # None /\ req.modbus_id # 0 /\ io.stamped /\ io.received = 0) =>
        /\ io.decoded = -1
        /\ ~result.ok
        /\ io.expired => result = IoError("TimedOut")
        /\ ~io.expired => result = IoError("Other")

C16_Witness ==
    /\ Returned
    /\ req # None
    /\ req.modbus_id = 1
    /\ io.reads = MaxCalls
    /\ io.received = 0
    /\ io.expired
    /\ result = IoError("TimedOut")

\* C28: in the read phase bytes are accumulated until 256 bytes have been
\* received or a read attempt brings no new byte after at least one has
\* arrived; reading stops there, and the accumulated bytes, never more than
\* 256, are handed to the decoder with the request.
C28_ReadPhase ==
    /\ io.late = "no"
    /\ pc = "read_call" => Len(rd.buf) < 256
    /\ (Returned /\ io.decoded # -1) =>
        /\ io.decoded <= 256
        /\ io.decoded = 256 \/ io.quiet # "no"

\* C28 with a read attempt that brings no new byte read as port.read returning
\* Err(TimedOut), for the read phases that do not run out of the request's
\* timeout.
C28_ReadPhase_TimedOut ==
    /\ io.late # "TimedOut"
    /\ pc = "read_call" => Len(rd.buf) < 256
    /\ (Returned /\ io.decoded # -1) =>
        /\ io.decoded <= 256
        /\ ~io.expired => (io.decoded = 256 \/ io.quiet = "TimedOut")

\* port.read returned Ok(0) after bytes had arrived, and read went on to
\* another attempt.
C28_ReadOnAfterNothing ==
    io.late # "Ok(0)"

\* A full buffer is handed to the decoder.
C28_WitnessFull ==
    /\ Returned
    /\ io.decoded = 256

\* A step of a send under way: the next statement of send, write or read is
\* reached, a sleep ends, a call on the port returns.
SendStep ==
    \/ SendWaitStep
    \/ SendWaitSleep
    \/ SendEncode
    \/ \E port_ok \in BOOLEAN : SendClear(port_ok)
    \/ \E port_ok \in BOOLEAN : SendWriteAll(port_ok)
    \/ SendStamp
    \/ SendSleep
    \/ ReadStep
    \/ ReadData
    \/ ReadTimedOut
    \/ ReadFailed
    \/ SendReturn

\* The clock advances, and the send under way takes its next step.
SendProgress == WF_vars(Tick) /\ WF_vars(SendStep)

SpecLive == Init /\ [][Next]_vars /\ SendProgress

\* C29: every call of send returns; the wait loop is left only once the time
\* since the last transmission exceeds the idle time, and read calls the
\* port no more once its loop has found the request's timeout exceeded,
\* whatever the port returned.
C29_SendReturns ==
    /\ (pc # "idle") ~> (pc = "idle" /\ result # None)
    /\ [](pc = "encode" => last_tx_elapsed > idle_time_rs485(baud_rate))
    /\ [](pc = "read_call" => ~io.expired)

\* A send whose reads all timed out with no byte returned once the request's
\* timeout of two ticks was exceeded.
C29_Witness ==
    /\ Returned
    /\ req # None
    /\ req.timeout = MaxTimeout
    /\ io.expired
    /\ io.reads = MaxCalls
    /\ io.quiet = "no"
    /\ result = IoError("TimedOut")

(***************************************************************************)
(* Encoder harness: a request is drawn, then Function::to_bytes or         *)
(* Request::to_bytes is applied to it.                                     *)
(***************************************************************************)
\* How far around each size ceiling the quantities and list lengths range,
\* and how many data patterns fill the value lists.
Margin == 1
MaxPattern == 1

Around(c) == {n \in (c - Margin)..(c + Margin) : n >= 0}

EncIds == {0, 1, 247}
EncAddresses == {0, 37, 65535}
ReadQuantities == Around(0) \cup Around(8) \cup Around(125) \cup Around(2008) \cup Around(65535 - Margin)
RegisterValues == {0, 43981, 65535}
CoilLens == Around(0) \cup Around(8) \cup Around(1976)
RegisterLens == Around(0) \cup Around(123)
\* Lists at and just over 2^16 entries, where the length no longer fits a u16.
WrapLens == {U16 + n : n \in 0..Margin}

CoilList(len, p) == [i \in 1..len |-> ((i + p) % 3 = 0) \/ (i % 7 = p)]
RegisterList(len, p) == [i \in 1..len |-> (i * 257 + p * 4660) % U16]

EncFunctions ==
    {ReadFunction(k, a, q) : k \in ReadKinds, a \in EncAddresses, q \in ReadQuantities}
    \cup {SingleFunction("WriteSingleCoil", a, v) : a \in EncAddresses, v \in BOOLEAN}
    \cup {SingleFunction("WriteSingleRegister", a, v) : a \in EncAddresses, v \in RegisterValues}
    \cup {MultipleFunction("WriteMultipleCoils", a, CoilList(n, p)) :
            a \in EncAddresses, n \in CoilLens, p \in 0..MaxPattern}
    \cup {MultipleFunction("WriteMultipleRegisters", a, RegisterList(n, p)) :
            a \in EncAddresses, n \in RegisterLens, p \in 0..MaxPattern}

EncRequests ==
    {Request_new(id, f, 1) : id \in EncIds, f \in EncFunctions}
    \cup {Request_new(1, MultipleFunction("WriteMultipleCoils", 0, CoilList(n, 0)), 1) : n \in WrapLens}

MasterParked ==
    /\ pc = "off" /\ last_tx_elapsed = 0 /\ baud_rate = 0
    /\ req = None /\ frame = <<>> /\ rd = None
    /\ result = None /\ io = None /\ wire = None

InitEnc ==
    /\ op = "init"
    /\ arg \in EncRequests
    /\ ret = None
    /\ MasterParked

CallFunctionToBytes ==
    /\ op = "init"
    /\ op' = "Function::to_bytes"
    /\ ret' = Function_to_bytes(arg.function)
    /\ UNCHANGED <<arg, masterVars>>

CallRequestToBytes ==
    /\ op = "init"
    /\ op' = "Request::to_bytes"
    /\ ret' = Request_to_bytes(arg)
    /\ UNCHANGED <<arg, masterVars>>

NextEnc == CallFunctionToBytes \/ CallRequestToBytes

SpecEnc == InitEnc /\ [][NextEnc]_vars

(***************************************************************************)
(* Encoder properties.                                                     *)
(***************************************************************************)
CeilDiv8(n) == (n + 7) \div 8

\* The frame layout as the protocol states it for a function: the fields
\* after the function code.  A count that does not fit its field has no layout.
LayoutByte(n) == IF n < U8 THEN <<n>> ELSE <<-1>>
LayoutWord(n) == IF n < U16 THEN <<n \div U8, n % U8>> ELSE <<-1, -1>>

LayoutCoilByte(value, j) ==
    LET bit(b) == IF 8 * (j - 1) + b + 1 <= Len(value) /\ value[8 * (j - 1) + b + 1]
                  THEN 2 ^ b ELSE 0
    IN  bit(0) + bit(1) + bit(2) + bit(3) + bit(4) + bit(5) + bit(6) + bit(7)

LayoutFields(f) ==
    CASE f.kind \in ReadKinds ->
            LayoutWord(f.starting_address) \o LayoutWord(f.quantity)
      [] f.kind = "WriteSingleCoil" ->
            LayoutWord(f.address) \o LayoutWord(IF f.value THEN 65280 ELSE 0)
      [] f.kind = "WriteSingleRegister" ->
            LayoutWord(f.address) \o LayoutWord(f.value)
      [] f.kind = "WriteMultipleCoils" ->
            LayoutWord(f.starting_address) \o LayoutWord(Len(f.value))
            \o LayoutByte(CeilDiv8(Len(f.value)))
            \o [j \in 1..CeilDiv8(Len(f.value)) |-> LayoutCoilByte(f.value, j)]
      [] f.kind = "WriteMultipleRegisters" ->
            LayoutWord(f.starting_address) \o LayoutWord(Len(f.value))
            \o LayoutByte(2 * Len(f.value))
            \o [i \in 1..(2 * Len(f.value)) |->
                    IF i % 2 = 1 THEN f.value[(i + 1) \div 2] \div U8
                    ELSE f.value[i \div 2] % U8]

EncodedRequest == op = "Request::to_bytes" /\ ret.ok
EncodedFunction == op = "Function::to_bytes"

\* C5: every frame Request::to_bytes returns is the device id, the function
\* code, the fields of the function kind, and the CRC-16 of all of that with
\* the low byte first; and the frame passes CRC validation.
C5_FrameLayout ==
    EncodedRequest =>
        LET body == <<arg.modbus_id, FunctionKind_as_code(arg.function.kind)>>
                    \o LayoutFields(arg.function)
            n == Len(ret.val)
        IN  /\ n = Len(body) + 2
            /\ SubSeq(ret.val, 1, n - 2) = body
            /\ <<ret.val[n - 1], ret.val[n]>> = crc16_modbus(body)
            /\ validate(ret.val).ok

\* C5 restricted to value lists whose length fits the 16-bit quantity field.
C5_FrameLayout_Short ==
    (EncodedRequest /\ (arg.function.kind \in {"WriteMultipleCoils", "WriteMultipleRegisters"}
                            => Len(arg.function.value) < U16))
        => C5_FrameLayout

C5_Witness ==
    /\ EncodedRequest
    /\ arg.function.kind = "WriteMultipleCoils"
    /\ Len(arg.function.value) = 9
    /\ Len(ret.val) = 11

\* C6: a value list of more than 1976 coils or more than 123 registers is
\* refused with RequestTooBig, and no frame Request::to_bytes returns is
\* longer than 256 bytes.
C6_WriteCeilings ==
    /\ (EncodedFunction /\ arg.function.kind = "WriteMultipleCoils"
            /\ Len(arg.function.value) > 1976)
        => (~ret.ok /\ ret.err = "RequestTooBig")
    /\ (EncodedFunction /\ arg.function.kind = "WriteMultipleRegisters"
            /\ Len(arg.function.value) > 123)
        => (~ret.ok /\ ret.err = "RequestTooBig")
    /\ EncodedRequest => Len(ret.val) <= 256

\* C7: a bit read is refused with ResponseWillTooBig exactly when its quantity
\* exceeds 2008, a register read exactly when it exceeds 125; the reply to an
\* accepted read fits 256 bytes and its byte count fits one byte.
C7_ReadCeilings ==
    EncodedFunction =>
        /\ arg.function.kind \in {"ReadCoils", "ReadDiscreteInputs"} =>
            /\ (~ret.ok /\ ret.err = "ResponseWillTooBig") <=> arg.function.quantity > 2008
            /\ ret.ok <=> arg.function.quantity <= 2008
            /\ ret.ok => /\ 5 + CeilDiv8(arg.function.quantity) <= 256
                         /\ CeilDiv8(arg.function.quantity) < U8
        /\ arg.function.kind \in {"ReadHoldingRegisters", "ReadInputRegisters"} =>
            /\ (~ret.ok /\ ret.err = "ResponseWillTooBig") <=> arg.function.quantity > 125
            /\ ret.ok <=> arg.function.quantity <= 125
            /\ ret.ok => /\ 5 + 2 * arg.function.quantity <= 256
                         /\ 2 * arg.function.quantity < U8

C7_Witness ==
    /\ EncodedFunction
    /\ arg.function.kind = "ReadCoils"
    /\ arg.function.quantity = 2008
    /\ ret.ok

\* C8: an address-ranged function whose range runs past 0xFFFF (its last
\* address, start + quantity - 1, is above 0xFFFF) is never encoded.
AddressRanged == ReadKinds \cup {"WriteMultipleCoils", "WriteMultipleRegisters"}

RangeQuantity(f) == IF f.kind \in ReadKinds THEN f.quantity ELSE Len(f.value)

C8_NoAddressWrap ==
    (op # "init" /\ arg.function.kind \in AddressRanged
        /\ arg.function.starting_address + RangeQuantity(arg.function) - 1 > 65535)
        => ~ret.ok

MaxFill == 2

CrcData ==
    {<<>>, <<1, 6, 18, 52, 86, 120>>, <<17, 6, 0, 16, 171, 205>>, <<1, 131, 2>>}
    \cup {[i \in 1..n |-> 255] : n \in 1..MaxFill}

FlipBit(byte, j) == BitXor(byte, 2 ^ j)

FlippedTrailers(good) ==
    {<<FlipBit(good[1], j), good[2]>> : j \in 0..7}
    \cup {<<good[1], FlipBit(good[2], j)>> : j \in 0..7}

Trailers(data) ==
    LET good == crc16_modbus(data)
    IN  {good, <<good[2], good[1]>>, <<0, 0>>} \cup FlippedTrailers(good)

InitCrc ==
    /\ op = "crc"
    /\ \E d \in CrcData : \E t \in Trailers(d) : arg = [data |-> d, trailer |-> t]
    /\ ret = None
    /\ MasterParked

CallGenerate ==
    /\ op = "crc"
    /\ op' = "crc::generate"
    /\ ret' = generate(arg.data)
    /\ UNCHANGED <<arg, masterVars>>

CallCrc16Modbus ==
    /\ op = "crc"
    /\ op' = "utils::crc16_modbus"
    /\ ret' = crc16_modbus(arg.data)
    /\ UNCHANGED <<arg, masterVars>>

CallValidate ==
    /\ op = "crc"
    /\ op' = "crc::validate"
    /\ ret' = validate(arg.data \o arg.trailer)
    /\ UNCHANGED <<arg, masterVars>>

NextCrc == CallGenerate \/ CallCrc16Modbus \/ CallValidate

SpecCrc == InitCrc /\ [][NextCrc]_vars

(***************************************************************************)
(* CRC properties.  StatedCrc is the algorithm as the specification words  *)
(* it, written apart from the model of the code.                           *)
(***************************************************************************)
RECURSIVE StatedRounds(_, _)
StatedRounds(crc, n) ==
    IF n = 0 THEN crc
    ELSE LET shifted == IF crc % 2 = 1 THEN BitXor(crc \div 2, 40961) ELSE crc \div 2
         IN  IF shifted >= 0 THEN StatedRounds(shifted, n - 1) ELSE shifted

RECURSIVE StatedFrom(_, _, _)
StatedFrom(data, i, crc) ==
    IF i > Len(data) THEN crc
    ELSE LET after == StatedRounds(BitXor(crc, data[i]), 8)
         IN  IF after >= 0 THEN StatedFrom(data, i + 1, after) ELSE after

StatedCrc(data) == StatedFrom(data, 1, 65535)

\* C4: validate accepts exactly the frames whose last two bytes, low byte
\* first, are the CRC-16 of the bytes before them; the CRC is the stated
\* algorithm, 0xFFFF for no bytes and 0xFEF2 for 01 06 12 34 56 78; and a
\* frame that differs from an accepted one in one bit of either trailing
\* byte is rejected.
C4_CrcValidation ==
    /\ op = "crc::generate" =>
        /\ ret = StatedCrc(arg.data)
        /\ arg.data = <<>> => ret = 65535
        /\ arg.data = <<1, 6, 18, 52, 86, 120>> => ret = 65266
    /\ op = "utils::crc16_modbus" =>
        ret = <<StatedCrc(arg.data) % 256, StatedCrc(arg.data) \div 256>>
    /\ op = "crc::validate" =>
        /\ ret.ok <=> (arg.trailer[1] + 256 * arg.trailer[2] = StatedCrc(arg.data))
        /\ arg.trailer \in FlippedTrailers(<<StatedCrc(arg.data) % 256,
                                             StatedCrc(arg.data) \div 256>>) => ~ret.ok
        /\ ~ret.ok => /\ ret.err.kind = "CRCMismatch"
                      /\ ret.err.expected = StatedCrc(arg.data)
                      /\ ret.err.received = arg.trailer[1] + 256 * arg.trailer[2]

C4_Witness ==
    /\ op = "crc::validate"
    /\ arg.data = <<1, 6, 18, 52, 86, 120>>
    /\ arg.trailer = <<242, 254>>
    /\ ret.ok

C4_WitnessFlipped ==
    /\ op = "crc::validate"
    /\ arg.data = <<1, 6, 18, 52, 86, 120>>
    /\ arg.trailer = <<243, 254>>
    /\ ~ret.ok

(***************************************************************************)
(* Decoder harness: a request and a received frame are drawn, then         *)
(* Response::from_bytes is applied.                                        *)
(***************************************************************************)
\* The word a stem's CRC makes when it is read as a big-endian field: a frame
\* stem ++ crc(stem) ++ 00 00 has a valid CRC (the CRC of any sealed string is
\* zero) and carries that word as its last field.
EchoWord(stem) == from_be_bytes(crc16_modbus(stem)[1], crc16_modbus(stem)[2])

DecRegisterQuantities == {2, 128, 256}
DecCoilQuantities == {10, 250, 256, 2008}

DecRequests ==
    {Request_new(1, ReadFunction(k, 0, q), 1) :
        k \in {"ReadHoldingRegisters", "ReadInputRegisters"}, q \in DecRegisterQuantities}
    \cup {Request_new(1, ReadFunction(k, 0, q), 1) :
        k \in {"ReadCoils", "ReadDiscreteInputs"}, q \in DecCoilQuantities}
    \cup {Request_new(1, SingleFunction("WriteSingleRegister", 16, v), 1) :
        v \in {43981, EchoWord(<<1, 6, 0, 16>>)}}
    \cup {Request_new(1, SingleFunction("WriteSingleCoil", 37922, v), 1) : v \in BOOLEAN}
    \cup {Request_new(1, MultipleFunction("WriteMultipleRegisters", 40, <<1, 2, 3>>), 1),
          Request_new(1, MultipleFunction("WriteMultipleCoils", 16, CoilList(9, 0)), 1)}

ExceptionBodies ==
    {<<id, code + 128, e>> : id \in {1, 2}, code \in {3, 6, 127}, e \in {1, 2, 4, 9}}

Fill(n) == [i \in 1..n |-> (i * 37) % U8]

\* Reply bodies, and reply bodies short of their last two bytes, for a request
\* of each kind: right and wrong byte counts, addresses and values.
ReadBodies(code) ==
    {<<1, code, 4, 0, 16, 0, 32>>, <<1, code, 4, 0, 16>>,
     <<1, code, 6, 0, 16, 0, 32, 0, 48>>, <<1, code, 6, 0, 16, 0, 32>>,
     <<1, code, 2, 165, 3>>, <<1, code, 2>>, <<1, code, 1, 165>>,
     <<1, code, 3, 165>>, <<1, code, 0>>,
     <<1, code, 27>> \o Fill(25), <<1, code, 251>> \o Fill(249)}

WriteBodies(r) ==
    LET code == FunctionKind_as_code(r.function.kind)
        full == NormalBody(r)
    IN  {full, SubSeq(full, 1, 4), SubSeq(full, 1, 5), full \o <<0>>,
         [full EXCEPT ![4] = (@ + 1) % U8], [full EXCEPT ![6] = (@ + 1) % U8]}

ReplyBodies(r) ==
    IF r.function.kind \in ReadKinds
    THEN ReadBodies(FunctionKind_as_code(r.function.kind))
    ELSE WriteBodies(r)

\* A body from another device, with another function code, with no function
\* code of the protocol.
Strays(b) ==
    {[b EXCEPT ![1] = 2], [b EXCEPT ![2] = (@ % 4) + 1], [b EXCEPT ![2] = 7],
     [b EXCEPT ![1] = 2, ![2] = 7]}

\* The frames made of a body: sealed once, sealed twice, with one bit of the
\* CRC flipped, with a zero CRC, and cut to four bytes.
Framings(b) ==
    {Sealed(b), Sealed(Sealed(b)), b \o <<0, 0>>, SubSeq(Sealed(b), 1, 4),
     [Sealed(b) EXCEPT ![Len(b) + 2] = BitXor(@, 1)]}

DecFrames(r) ==
    LET bodies == ReplyBodies(r) \cup ExceptionBodies \cup {NormalBody(r)}
                  \cup UNION {Strays(b) : b \in {NormalBody(r), SubSeq(NormalBody(r), 1, Len(NormalBody(r)) - 2)}}
    IN  UNION {Framings(b) : b \in bodies}

InitDec ==
    /\ op = "decode"
    /\ \E r \in DecRequests : \E bytes \in DecFrames(r) : arg = [request |-> r, bytes |-> bytes]
    /\ ret = None
    /\ MasterParked

CallFromBytes ==
    /\ op = "decode"
    /\ op' = "Response::from_bytes"
    /\ \E checked \in BOOLEAN : ret' = from_bytes(arg.request, arg.bytes, checked)
    /\ UNCHANGED <<arg, masterVars>>

NextDec == CallFromBytes

SpecDec == InitDec /\ [][NextDec]_vars

(***************************************************************************)
(* Decoder properties.                                                     *)
(***************************************************************************)
Decoded == op = "Response::from_bytes"

\* C10: a frame of at least 5 bytes whose CRC is valid and whose function
\* code has its top bit set decodes to the Exception its third byte names,
\* whatever its device id and function code.
C10_ExceptionFirst ==
    (Decoded /\ Len(arg.bytes) >= 5 /\ validate(arg.bytes).ok /\ BitSet(arg.bytes[2], 7))
        => ret = Ok(Response_Exception(Exception_from_code(arg.bytes[3])))

\* A reply that passes the length, CRC, exception, device id and function
\* code checks of the request it is decoded against.
RepliesTo ==
    /\ Decoded
    /\ Len(arg.bytes) >= 5
    /\ validate(arg.bytes).ok
    /\ ~BitSet(arg.bytes[2], 7)
    /\ arg.bytes[1] = arg.request.modbus_id
    /\ arg.bytes[2] = FunctionKind_as_code(arg.request.function.kind)

\* The frame without device id, function code and CRC.
Payload == SubSeq(arg.bytes, 3, Len(arg.bytes) - 2)

\* The CRC check as from_bytes makes it lets the frame through.
PassesCrcCheck == Len(arg.bytes) >= 5 /\ validate(CrcCheckedSlice(arg.bytes)).ok

\* C11: a reply to a register read whose byte count is not twice the
\* quantity decodes to InvalidFormat; a reply that decodes gives Value with
\* quantity words, each the big-endian pair of data bytes in frame order; and
\* 01 04 04 00 10 00 20 FB 99 for a quantity of 2 gives Value([0x0010, 0x0020]).
C11_RegisterReply ==
    (RepliesTo /\ arg.request.function.kind \in {"ReadHoldingRegisters", "ReadInputRegisters"}) =>
        LET q == arg.request.function.quantity
        IN  /\ Payload[1] # 2 * q => ret = InvalidFormat
            /\ ret.ok =>
                /\ Payload[1] = 2 * q
                /\ ret.val = Response_Value(
                        [k \in 1..q |-> from_be_bytes(Payload[2 * k], Payload[2 * k + 1])])
            /\ (arg.bytes = <<1, 4, 4, 0, 16, 0, 32, 251, 153>> /\ q = 2) =>
                ret = Ok(Response_Value(<<16, 32>>))

\* C11 for the replies the CRC check lets through and whose byte count is not
\* above twice the quantity, for quantities the encoder accepts.
C11_RegisterReply_Checked ==
    (RepliesTo /\ PassesCrcCheck
        /\ arg.request.function.kind \in {"ReadHoldingRegisters", "ReadInputRegisters"}
        /\ arg.request.function.quantity <= 125
        /\ Payload[1] <= 2 * arg.request.function.quantity)
        => C11_RegisterReply

\* C12: a reply to a bit read of a quantity up to 2008 decodes to
\* InvalidFormat when its byte count is below ceil(quantity / 8), and
\* otherwise (the data bytes being there) to Status with quantity booleans,
\* entry k being bit k mod 8 of data byte k div 8.
C12_BitReply ==
    (RepliesTo /\ arg.request.function.kind \in {"ReadCoils", "ReadDiscreteInputs"}
        /\ arg.request.function.quantity <= 2008) =>
        LET q == arg.request.function.quantity
        IN  /\ Payload[1] < CeilDiv8(q) => ret = InvalidFormat
            /\ (Payload[1] >= CeilDiv8(q) /\ Len(Payload) >= Payload[1] + 1) =>
                ret = Ok(Response_Status(
                        [k \in 1..q |-> BitSet(Payload[2 + ((k - 1) \div 8)], (k - 1) % 8)]))

\* C12 for the replies the CRC check lets through, for quantities below 249.
C12_BitReply_Checked ==
    (RepliesTo /\ PassesCrcCheck
        /\ arg.request.function.kind \in {"ReadCoils", "ReadDiscreteInputs"}
        /\ arg.request.function.quantity < 249)
        => C12_BitReply

\* What the request of a write expects echoed after the address.
EchoedField(f) ==
    CASE f.kind = "WriteSingleCoil" -> (IF f.value THEN 65280 ELSE 0)
      [] f.kind = "WriteSingleRegister" -> f.value
      [] OTHER -> Len(f.value)

EchoedAddress(f) ==
    IF f.kind \in {"WriteSingleCoil", "WriteSingleRegister"} THEN f.address ELSE f.starting_address

\* C13: a reply to a write decodes to Success when its payload is four
\* bytes, the request's address and the request's value (or number of
\* values), and to InvalidFormat otherwise; and the frame of a single write,
\* echoed, decodes to Success.
C13_WriteReply ==
    /\ (RepliesTo /\ arg.request.function.kind \in WriteKinds) =>
        ret = IF /\ Len(Payload) = 4
                 /\ from_be_bytes(Payload[1], Payload[2]) = EchoedAddress(arg.request.function)
                 /\ from_be_bytes(Payload[3], Payload[4]) = EchoedField(arg.request.function)
              THEN Ok(Response_Success)
              ELSE InvalidFormat
    /\ (Decoded /\ arg.request.function.kind \in {"WriteSingleCoil", "WriteSingleRegister"}
            /\ arg.bytes = Request_to_bytes(arg.request).val) =>
        ret = Ok(Response_Success)

\* C13 for the replies the CRC check lets through.
C13_WriteReply_Checked ==
    (Decoded /\ PassesCrcCheck) => C13_WriteReply

\* C14: from_bytes does not panic.
C14_NeverPanics ==
    Decoded => (ret.ok \/ ret.err.kind # "panic")

\* The checks of from_bytes in their order, over a given reading of "the CRC
\* matches".
ChecksInOrder(crc) ==
    LET bytes == arg.bytes
        len == Len(bytes)
        kind == FunctionKind_from_code(bytes[2])
    IN  IF len < 5 THEN ret = Err([kind |-> "TooShort", len |-> len])
        ELSE IF ~crc.ok
             THEN ret = Err([kind |-> "CRCMismatch", expected |-> crc.err.expected,
                             received |-> crc.err.received])
        ELSE IF BitSet(bytes[2], 7)
             THEN ret.ok /\ ret.val.variant = "Exception"
        ELSE IF bytes[1] # arg.request.modbus_id
             THEN ret = Err([kind |-> "UnexpectedResponder", id |-> bytes[1]])
        ELSE IF ~kind.some \/ kind.val # arg.request.function.kind
             THEN ret = InvalidFormat
        ELSE TRUE

\* C26: from_bytes reports the first check that fails, in this order: fewer
\* than 5 bytes, TooShort; a CRC that does not match the frame, CRCMismatch
\* with the expected and received values; a top-bit function code, an
\* Exception response; a device id other than the request's,
\* UnexpectedResponder, whatever the function code; an unknown function code
\* or one of another kind than the request's, InvalidFormat.
C26_CheckOrder ==
    Decoded => ChecksInOrder(IF Len(arg.bytes) >= 5 THEN validate(arg.bytes) ELSE Ok(Unit))

\* C26 with the CRC check as from_bytes makes it, over the frame without its
\* last two bytes.
C26_CheckOrder_Checked ==
    Decoded =>
        ChecksInOrder(IF Len(arg.bytes) >= 5 THEN validate(CrcCheckedSlice(arg.bytes))
                      ELSE Ok(Unit))

\* A frame from another device with a function code of no kind gets past
\* the CRC check and is reported as UnexpectedResponder.
C26_WitnessResponder ==
    /\ Decoded
    /\ PassesCrcCheck
    /\ arg.bytes[1] # arg.request.modbus_id
    /\ arg.bytes[2] = 7
    /\ ret = Err([kind |-> "UnexpectedResponder", id |-> arg.bytes[1]])

(***************************************************************************)
(* Slave: address space, register model and packet analyzer.  A register   *)
(* model is a record: structure (the strictly increasing addresses) and    *)
(* values (one per address).  A slave is a record: modbus_id,              *)
(* holding_registers and input_registers.                                  *)
(***************************************************************************)
\* slice::binary_search over structure[lo..hi] (0-based, hi exclusive).
RECURSIVE binary_search(_, _, _, _)
binary_search(structure, address, lo, hi) ==
    IF lo >= hi THEN None
    ELSE LET mid == lo + ((hi - lo) \div 2)
         IN  IF structure[mid + 1] = address THEN Some(mid)
             ELSE IF structure[mid + 1] < address
                  THEN binary_search(structure, address, mid + 1, hi)
                  ELSE binary_search(structure, address, lo, mid)

\* DataStructure::find
DataStructure_find(structure, address) ==
    binary_search(structure, address, 0, Len(structure))

\* DataStructure::validate, addresses[i] >= addresses[i + 1] taken as >.
DataStructure_validate_nondecreasing(structure) ==
    \A i \in 1..(Len(structure) - 1) : structure[i] <= structure[i + 1]

\* DataStructure::validate: strictly increasing addresses.
DataStructure_validate(structure) ==
    \A i \in 1..(Len(structure) - 1) : structure[i] < structure[i + 1]

\* DataModel::find_index
find_index(model, address) == DataStructure_find(model.structure, address)

\* DataModel::is_empty
is_empty(model) == Len(model.structure) = 0

checked_add(a, b) == IF a + b < U16 THEN Some(a + b) ELSE None

saturating_mul(a, b) == IF a * b < U16 THEN a * b ELSE U16 - 1

\* PacketError::Exeption(fc, exception)
Exeption(fc, variant) ==
    Err([kind |-> "Exeption", fc |-> fc, exception |-> [variant |-> variant]])

\* for adr in start..=end { find_index(adr)? }
RangeResolves_exclusive(model, start, end) ==
    \A adr \in start..(end - 1) : find_index(model, adr).some

RangeResolves(model, start, end) ==
    \A adr \in start..end : find_index(model, adr).some

\* (packet[k] << 8) | packet[k + 1], k counted from 0.
WordAt(packet, k) == from_be_bytes(packet[k + 1], packet[k + 2])

\* The 0x03 and 0x04 branches: the same steps over the holding and the input
\* registers.
AnalyzeRead(model, form, fc, packet) ==
    IF is_empty(model) THEN Exeption(fc, "IllegalFunction")
    ELSE IF Len(packet) < 8 THEN Exeption(fc, "IllegalDataValue")
    ELSE LET start_register == WordAt(packet, 2)
             registers_count == WordAt(packet, 4)
             end_register == checked_add(start_register, registers_count)
         IN  IF ~end_register.some THEN Exeption(fc, "IllegalDataAddress")
             ELSE IF ~RangeResolves(model, start_register, end_register.val)
                  THEN Exeption(fc, "IllegalDataAddress")
             ELSE Ok([form |-> form, start_register |-> start_register,
                      registers_count |-> registers_count])

\* word_buffer[i]: the i-th data word of a 0x10 frame.
BufferWord_packed(packet, i) == WordAt(packet, 7 + i)

BufferWord(packet, i) == WordAt(packet, 7 + (i * 2))

\* The 0x06 branch.
AnalyzeWriteSingle(model, fc, packet) ==
    IF is_empty(model) THEN Exeption(fc, "IllegalFunction")
    ELSE IF Len(packet) < 8 THEN Exeption(fc, "IllegalDataValue")
    ELSE LET register_address == WordAt(packet, 2)
             data_to_write == WordAt(packet, 4)
         IN  IF ~find_index(model, register_address).some
             THEN Exeption(fc, "IllegalDataAddress")
             ELSE Ok([form |-> "WriteSingleRegister", register_address |-> register_address,
                      data_to_write |-> data_to_write])

\* The 0x10 branch; word_buffer_len is the length of the caller's buffer.  An
\* index past the end of the packet or of the buffer panics.
AnalyzeWriteMultiple(model, fc, packet, word_buffer_len) ==
    IF is_empty(model) THEN Exeption(fc, "IllegalFunction")
    ELSE IF Len(packet) < 9 THEN Exeption(fc, "IllegalDataValue")
    ELSE LET start_register == WordAt(packet, 2)
             registers_count == WordAt(packet, 4)
             bytes_count == packet[7]
             end_register == checked_add(start_register, registers_count)
         IN  IF Len(packet) < 9 + bytes_count THEN Exeption(fc, "IllegalDataValue")
             ELSE IF bytes_count # saturating_mul(registers_count, 2)
                  THEN Exeption(fc, "IllegalDataValue")
             ELSE IF ~end_register.some THEN Exeption(fc, "IllegalDataAddress")
             ELSE IF ~RangeResolves(model, start_register, end_register.val)
                  THEN Exeption(fc, "IllegalDataAddress")
             ELSE IF \E i \in 0..(registers_count - 1) :
                        7 + (i * 2) + 1 >= Len(packet) \/ i >= word_buffer_len
                  THEN Panic("index out of bounds")
             ELSE IF registers_count > word_buffer_len
                  THEN Panic("range end index out of range")
             ELSE Ok([form |-> "WriteMultipleRegisters", start_register |-> start_register,
                      data_to_write |->
                          [k \in 1..registers_count |-> BufferWord(packet, k - 1)]])

\* PacketError::from the CRC error of crc::validate.
CrcMismatch(e) ==
    Err([kind |-> "CrcMismatch", expected |-> e.expected, received |-> e.received])

\* The device-id filter.
NotForMe_any_slave(modbus_id, id) == modbus_id # id

NotForMe(modbus_id, id) == modbus_id # 0 /\ modbus_id # id

\* ModbusSlave::analyze_packet
analyze_packet(slave, packet, word_buffer_len) ==
    LET len == Len(packet)
    IN  IF len < 4 THEN Err([kind |-> "TooShort", len |-> len])
        ELSE IF ~validate(packet).ok THEN CrcMismatch(validate(packet).err)
        ELSE IF NotForMe(slave.modbus_id, packet[1])
             THEN Err([kind |-> "NotMyId", id |-> packet[1]])
        ELSE LET fc == packet[2]
             IN  CASE fc = 3 ->
                        AnalyzeRead(slave.holding_registers, "ReadHoldingRegisters", fc, packet)
                   [] fc = 4 ->
                        AnalyzeRead(slave.input_registers, "ReadInputRegisters", fc, packet)
                   [] fc = 6 -> AnalyzeWriteSingle(slave.holding_registers, fc, packet)
                   [] fc = 16 ->
                        AnalyzeWriteMultiple(slave.holding_registers, fc, packet, word_buffer_len)
                   [] OTHER -> Exeption(fc, "IllegalFunction")

\* crc::gen_bytes: the CRC of the bytes, low byte first.
gen_bytes(bytes) == to_le_bytes(generate(bytes))

\* fc | 0x80
ExceptionFunctionCode_plain(fc) == fc

ExceptionFunctionCode(fc) == IF fc < 128 THEN fc + 128 ELSE fc

\* ModbusSlave::build_exception_response_packet
build_exception_response_packet(slave, fc, exception) ==
    LET head == <<slave.modbus_id, ExceptionFunctionCode(fc), Exception_as_code(exception)>>
    IN  head \o gen_bytes(head)

(***************************************************************************)
(* Slave harness: one slave, one incoming byte sequence and one scratch    *)
(* buffer; analyze_packet is called, and the exception it reports is       *)
(* turned into the response frame.                                         *)
(***************************************************************************)
MaxCount == 3
ShortScratch == 2

\* The largest register count whose doubled byte count fits the u8 field.
ScratchWords == (U8 - 1) \div 2

DataModel_new(structure) ==
    [structure |-> structure, values |-> [i \in 1..Len(structure) |-> 0]]

NoRegisters == DataModel_new(<<>>)
FewRegisters == DataModel_new(<<16, 17, 18, 20>>)
TopRegisters == DataModel_new(<<U16 - 2, U16 - 1>>)
ManyRegisters == DataModel_new([i \in 1..(ScratchWords + 1) |-> i - 1])

SlaveIds == {0, 5}

Slaves ==
    {[modbus_id |-> id, holding_registers |-> m[1], input_registers |-> m[2]] :
        id \in SlaveIds,
        m \in {<<NoRegisters, NoRegisters>>, <<FewRegisters, FewRegisters>>,
               <<TopRegisters, NoRegisters>>, <<ManyRegisters, FewRegisters>>}}

FrameIds == {0, 5, 6}
FrameAddresses == {15, 16, 18, 20, U16 - 2, U16 - 1}
FrameCounts == (0..MaxCount) \cup {U16 - 1}

\* Request bodies (device id, function code, fields) before the CRC.
ReadRequestBodies ==
    {<<id, fc>> \o to_be_bytes(start) \o to_be_bytes(count) :
        id \in FrameIds, fc \in {3, 4}, start \in FrameAddresses, count \in FrameCounts}

WriteSingleBodies ==
    {<<id, 6>> \o to_be_bytes(start) \o <<171, 205>> :
        id \in FrameIds, start \in FrameAddresses}

WriteMultipleBodies ==
    UNION {{<<id, 16>> \o to_be_bytes(start) \o to_be_bytes(count) \o <<bc>> \o Fill(n) :
                bc \in {2 * count, (2 * count) + 2, 1},
                n \in {2 * count, (2 * count) + 2, 0}} :
            id \in FrameIds, start \in {16, 17, U16 - 2}, count \in 0..MaxCount}
    \cup {<<id, 16>> \o to_be_bytes(0) \o to_be_bytes(count) \o <<as_u8(2 * count)>>
            \o Fill(2 * ScratchWords) :
            id \in {0, 5}, count \in {ScratchWords, ScratchWords + 1, U16 \div 2}}

OtherBodies ==
    UNION {{<<id, 1, 0, 16, 0, 1>>, <<id, 131, 2>>, <<id, 69, 0, 0>>} : id \in FrameIds}
    \cup {<<id, fc>> : id \in FrameIds, fc \in {1, 3, 4, 6, 16}}
    \cup {<<id, fc, 0, 16, 0>> : id \in FrameIds, fc \in {3, 4, 6, 16}}

SlaveBodies == ReadRequestBodies \cup WriteSingleBodies \cup WriteMultipleBodies \cup OtherBodies

\* Each body with its CRC, with one bit of the CRC flipped, and cut short.
SlaveFrames ==
    UNION {{Sealed(b),
            SubSeq(Sealed(b), 1, Len(b) + 1) \o <<FlipBit(Sealed(b)[Len(b) + 2], 0)>>,
            SubSeq(b, 1, 2)} : b \in SlaveBodies}
    \cup {<<>>, <<5>>, Sealed(<<5>>)}

InitSlave ==
    /\ op = "frame"
    /\ \E slave \in Slaves : \E packet \in SlaveFrames :
        \E n \in {ShortScratch, ScratchWords - 1, ScratchWords} :
            arg = [slave |-> slave, packet |-> packet, word_buffer_len |-> n]
    /\ ret = None
    /\ MasterParked

CallAnalyzePacket ==
    /\ op = "frame"
    /\ op' = "analyze_packet"
    /\ ret' = analyze_packet(arg.slave, arg.packet, arg.word_buffer_len)
    /\ UNCHANGED <<arg, masterVars>>

\* The caller answers a reported exception.
CallBuildExceptionResponsePacket ==
    /\ op = "analyze_packet"
    /\ ~ret.ok /\ ret.err.kind = "Exeption"
    /\ op' = "build_exception_response_packet"
    /\ ret' = [analysis |-> ret,
               response |-> build_exception_response_packet(
                                arg.slave, ret.err.fc, ret.err.exception)]
    /\ UNCHANGED <<arg, masterVars>>

NextSlave == CallAnalyzePacket \/ CallBuildExceptionResponsePacket

SpecSlave == InitSlave /\ [][NextSlave]_vars

(***************************************************************************)
(* Slave properties.                                                       *)
(***************************************************************************)
Analyzed == op = "analyze_packet"

\* The frame got past the length, CRC and device-id checks.
PassedFilters ==
    /\ Len(arg.packet) >= 4
    /\ validate(arg.packet).ok
    /\ ~NotForMe(arg.slave.modbus_id, arg.packet[1])

\* The register model a read function code is served from.
ReadModel(fc) ==
    IF fc = 3 THEN arg.slave.holding_registers ELSE arg.slave.input_registers

InAddressSpace(model, address) ==
    \E i \in 1..Len(model.structure) : model.structure[i] = address

ReadFrame ==
    /\ PassedFilters
    /\ arg.packet[2] \in {3, 4}
    /\ Len(arg.packet) >= 8
    /\ ~is_empty(ReadModel(arg.packet[2]))

\* C17: a Read Holding/Input Registers frame that passes the length, CRC and
\* id checks, on a slave whose register model for it is not empty, is
\* accepted exactly when start + count does not exceed 0xFFFF and every
\* address from start to start + count inclusive is in the model's address
\* space, and is otherwise answered IllegalDataAddress; the accepted request
\* carries the frame's start and count.
C17_ReadRange ==
    (Analyzed /\ ReadFrame) =>
        LET fc == arg.packet[2]
            start == from_be_bytes(arg.packet[3], arg.packet[4])
            count == from_be_bytes(arg.packet[5], arg.packet[6])
        IN  ret = IF /\ start + count <= 65535
                     /\ \A a \in start..(start + count) : InAddressSpace(ReadModel(fc), a)
                  THEN Ok([form |-> IF fc = 3 THEN "ReadHoldingRegisters"
                                    ELSE "ReadInputRegisters",
                           start_register |-> start, registers_count |-> count])
                  ELSE Exeption(fc, "IllegalDataAddress")

\* A read of two registers is accepted.
C17_Witness ==
    /\ Analyzed /\ ReadFrame
    /\ ret.ok /\ ret.val.registers_count = 2

WriteMultipleFrame == Len(arg.packet) >= 2 /\ arg.packet[2] = 16

\* C18: a Write Multiple Registers frame is accepted only if its byte-count
\* field is twice its count, it is long enough for the declared payload and
\* the CRC, and every address from start to start + count inclusive is in
\* the holding registers' address space; the accepted request has count data
\* entries, entry i the big-endian word at frame bytes 7 + 2i and 8 + 2i
\* (counted from 0); and with a scratch buffer of 127 words or more no index
\* is out of bounds.
C18_WriteMultiple ==
    (Analyzed /\ WriteMultipleFrame) =>
        /\ ret.ok =>
            /\ Len(arg.packet) >= 9
            /\ LET start == from_be_bytes(arg.packet[3], arg.packet[4])
                   count == from_be_bytes(arg.packet[5], arg.packet[6])
                   byte_count == arg.packet[7]
               IN  /\ byte_count = 2 * count
                   /\ Len(arg.packet) >= 7 + byte_count + 2
                   /\ start + count <= 65535
                   /\ \A a \in start..(start + count) :
                        InAddressSpace(arg.slave.holding_registers, a)
                   /\ ret.val.form = "WriteMultipleRegisters"
                   /\ ret.val.start_register = start
                   /\ Len(ret.val.data_to_write) = count
                   /\ \A i \in 0..(count - 1) :
                        ret.val.data_to_write[i + 1] =
                            (arg.packet[7 + (2 * i) + 1] * 256) + arg.packet[8 + (2 * i) + 1]
        /\ arg.word_buffer_len >= 127 => (ret.ok \/ ret.err.kind # "panic")

\* The largest write there is, 127 registers, is accepted into a buffer of
\* 127 words.
C18_Witness ==
    /\ Analyzed /\ WriteMultipleFrame
    /\ arg.word_buffer_len = 127
    /\ ret.ok /\ Len(ret.val.data_to_write) = 127

Answered == op = "build_exception_response_packet"

Rejected == Analyzed /\ ~ret.ok /\ ret.err.kind # "NotMyId"

BroadcastFrame ==
    /\ Len(arg.packet) >= 4
    /\ validate(arg.packet).ok
    /\ arg.packet[1] = 0

\* A broadcast frame is not rejected as NotMyId, whatever the slave's id.
C20_BroadcastNotRejected ==
    (Analyzed /\ BroadcastFrame) => (ret.ok \/ ret.err.kind # "NotMyId")

\* No response frame is built for a broadcast frame.
C20_BroadcastUnanswered ==
    Answered => arg.packet[1] # 0

\* C20: a CRC-valid frame for the broadcast device id 0 is analyzed by a
\* slave of any configured id, never rejected as NotMyId, and no response
\* frame is produced for it.
C20_Broadcast ==
    C20_BroadcastNotRejected /\ C20_BroadcastUnanswered

\* What the frame's function asks of the frame's length and byte count.
BadLength(packet) ==
    IF packet[2] = 16
    THEN \/ Len(packet) < 9
         \/ Len(packet) < 9 + packet[7]
         \/ packet[7] # 2 * from_be_bytes(packet[5], packet[6])
    ELSE Len(packet) < 8

\* What the frame's function asks of the frame's addresses.
BadAddress(model, packet) ==
    LET start == from_be_bytes(packet[3], packet[4])
        count == from_be_bytes(packet[5], packet[6])
    IN  IF packet[2] = 6 THEN ~InAddressSpace(model, start)
        ELSE \/ start + count > 65535
             \/ \E a \in start..(start + count) : ~InAddressSpace(model, a)

\* C27: analyze_packet reports the first check that fails, in this order: a
\* frame under 4 bytes, TooShort; a CRC mismatch, CrcMismatch; a configured
\* id that is not 0 and not the frame's, NotMyId; a function code other than
\* 0x03, 0x04, 0x06, 0x10, or one whose register model is empty,
\* IllegalFunction; a frame too short for its function or, for 0x10, a byte
\* count other than twice the count, IllegalDataValue; an overflowing or
\* unresolved address, IllegalDataAddress; and every exception carries the
\* frame's function code.
C27_CheckOrder ==
    (Analyzed /\ (ret.ok \/ ret.err.kind # "panic")) =>
        LET packet == arg.packet
            len == Len(packet)
            fc == packet[2]
            model == IF fc = 4 THEN arg.slave.input_registers ELSE arg.slave.holding_registers
        IN  IF len < 4 THEN ret = Err([kind |-> "TooShort", len |-> len])
            ELSE IF ~validate(packet).ok
                 THEN ret = Err([kind |-> "CrcMismatch",
                                 expected |-> generate(SubSeq(packet, 1, len - 2)),
                                 received |-> from_le_bytes(packet[len - 1], packet[len])])
            ELSE IF arg.slave.modbus_id # 0 /\ arg.slave.modbus_id # packet[1]
                 THEN ret = Err([kind |-> "NotMyId", id |-> packet[1]])
            ELSE IF fc \notin {3, 4, 6, 16} \/ Len(model.structure) = 0
                 THEN ret = Exeption(fc, "IllegalFunction")
            ELSE IF BadLength(packet) THEN ret = Exeption(fc, "IllegalDataValue")
            ELSE IF BadAddress(model, packet) THEN ret = Exeption(fc, "IllegalDataAddress")
            ELSE ret.ok

\* A read too short for its function, of a slave without holding registers,
\* is answered IllegalFunction.
C27_Witness ==
    /\ Analyzed
    /\ Len(arg.packet) \in 4..7
    /\ arg.packet[2] = 3
    /\ is_empty(arg.slave.holding_registers)
    /\ ret = Exeption(3, "IllegalFunction")

\* A write of the right length with a wrong byte count and an unresolved
\* address is answered IllegalDataValue.
C27_WitnessValue ==
    /\ Analyzed
    /\ Len(arg.packet) >= 9
    /\ arg.packet[2] = 16
    /\ Len(arg.packet) >= 9 + arg.packet[7]
    /\ BadAddress(arg.slave.holding_registers, arg.packet)
    /\ ret = Exeption(16, "IllegalDataValue")

\* A slave configured with id 0 analyzes a frame for device 6.
C27_WitnessListenAll ==
    /\ Analyzed
    /\ arg.slave.modbus_id = 0
    /\ Len(arg.packet) >= 4
    /\ arg.packet[1] = 6
    /\ ret.ok

(***************************************************************************)
(* Exception harness: a byte is decoded to an Exception and encoded back;  *)
(* a slave builds the exception frame and the master decodes it; and       *)
(* is_success is asked of a response.                                      *)
(***************************************************************************)
\* Response::is_success
is_success_by_code(response) ==
    CASE response.variant \in {"Status", "Value", "Success"} -> TRUE
      [] response.variant = "Exception" -> Exception_as_code(response.exception) = 5

is_success(response) ==
    CASE response.variant \in {"Status", "Value", "Success"} -> TRUE
      [] response.variant = "Exception" -> response.exception = [variant |-> "Acknowledge"]

Undefined(code) == [variant |-> "Undefined", code |-> code]

ExcIds == {5, 243, 252}
ExcFunctionCodes == {3, 63, 127, 144}
ExcRequests ==
    {Request_new(5, ReadFunction("ReadHoldingRegisters", 0, 2), 1),
     Request_new(1, SingleFunction("WriteSingleRegister", 16, 43981), 1)}

SlaveOf(id) ==
    [modbus_id |-> id, holding_registers |-> NoRegisters, input_registers |-> NoRegisters]

ExcResponses ==
    {Response_Success, Response_Status(<<>>), Response_Status(<<TRUE, FALSE>>),
     Response_Value(<<>>), Response_Value(<<5>>)}
    \cup {Response_Exception(Exception_from_code(b)) : b \in 0..(U8 - 1)}
    \cup {Response_Exception(Undefined(b)) : b \in 1..11}

InitExc ==
    /\ \/ /\ op = "exception"
          /\ \E id \in ExcIds : \E fc \in ExcFunctionCodes : \E b \in 0..(U8 - 1) :
                \E r \in ExcRequests :
                    arg = [modbus_id |-> id, fc |-> fc, code |-> b, request |-> r]
       \/ /\ op = "response"
          /\ \E response \in ExcResponses : arg = [response |-> response]
    /\ ret = None
    /\ MasterParked

CallFromCode ==
    /\ op = "exception"
    /\ op' = "Exception::from_code"
    /\ ret' = Exception_from_code(arg.code)
    /\ UNCHANGED <<arg, masterVars>>

CallAsCode ==
    /\ op = "Exception::from_code"
    /\ op' = "Exception::as_code"
    /\ ret' = [exception |-> ret, code |-> Exception_as_code(ret)]
    /\ UNCHANGED <<arg, masterVars>>

\* The slave builds the frame for the exception the byte names, or for
\* Undefined carrying the byte.
CallBuildExceptionFrame ==
    /\ op = "exception"
    /\ op' = "exception frame"
    /\ \E e \in {Exception_from_code(arg.code), Undefined(arg.code)} :
        ret' = [exception |-> e,
                frame |-> build_exception_response_packet(SlaveOf(arg.modbus_id), arg.fc, e)]
    /\ UNCHANGED <<arg, masterVars>>

\* The master decodes the frame against its request.
CallDecodeExceptionFrame ==
    /\ op = "exception frame"
    /\ op' = "exception decoded"
    /\ \E checked \in BOOLEAN :
        ret' = [exception |-> ret.exception, frame |-> ret.frame,
                decoded |-> from_bytes(arg.request, ret.frame, checked)]
    /\ UNCHANGED <<arg, masterVars>>

CallIsSuccess ==
    /\ \/ /\ op = "exception decoded" /\ ret.decoded.ok
          /\ ret' = [response |-> ret.decoded.val, frame |-> ret.frame,
                     success |-> is_success(ret.decoded.val)]
       \/ /\ op = "response"
          /\ ret' = [response |-> arg.response, frame |-> <<>>,
                     success |-> is_success(arg.response)]
    /\ op' = "Response::is_success"
    /\ UNCHANGED <<arg, masterVars>>

NextExc ==
    \/ CallFromCode
    \/ CallAsCode
    \/ CallBuildExceptionFrame
    \/ CallDecodeExceptionFrame
    \/ CallIsSuccess

SpecExc == InitExc /\ [][NextExc]_vars

(***************************************************************************)
(* Exception properties.                                                   *)
(***************************************************************************)
\* fc | 0x80, bit by bit.
WithTopBit(fc) == (fc % 128) + 128

\* The frame is the slave's id, the function code with its top bit set, the
\* exception's code and the CRC of those three bytes, low byte first, and it
\* passes crc::validate.
C21_FrameBytes ==
    (op \in {"exception frame", "exception decoded"}) =>
        /\ ret.frame = Sealed(<<arg.modbus_id, WithTopBit(arg.fc), Exception_as_code(ret.exception)>>)
        /\ Len(ret.frame) = 5
        /\ validate(ret.frame).ok

\* C21: build_exception_response_packet(fc, e) returns the 5 bytes
\* [configured id, fc | 0x80, code of e, crc_lo, crc_hi], the CRC being that
\* of the first three bytes; the frame passes CRC validation; and
\* Response::from_bytes decodes it, for any request, to Exception(x) with
\* the code of x equal to the code of e.
C21_ExceptionFrame ==
    /\ C21_FrameBytes
    /\ op = "exception decoded" =>
        /\ ret.decoded.ok
        /\ ret.decoded.val.variant = "Exception"
        /\ Exception_as_code(ret.decoded.val.exception) = Exception_as_code(ret.exception)

\* C21 for the frames the CRC check of from_bytes lets through.
C21_ExceptionFrame_Checked ==
    (op = "exception decoded" => validate(CrcCheckedSlice(ret.frame)).ok) => C21_ExceptionFrame

\* A built frame that from_bytes decodes.
C21_DecodedWitness ==
    /\ op = "exception decoded"
    /\ ret.decoded.ok

DefinedCodes == {1, 2, 3, 4, 5, 6, 8, 10, 11}

NamedVariant(code) ==
    CASE code = 1 -> "IllegalFunction"
      [] code = 2 -> "IllegalDataAddress"
      [] code = 3 -> "IllegalDataValue"
      [] code = 4 -> "DeviceFailure"
      [] code = 5 -> "Acknowledge"
      [] code = 6 -> "DeviceBusy"
      [] code = 8 -> "MemoryParityError"
      [] code = 10 -> "GatewayPathUnavailable"
      [] code = 11 -> "GatewayTargetDeviceFailedToRespond"

\* C24: for every byte b, from_code(b).as_code() is b; from_code gives the
\* named variant for the codes 1 to 6, 8, 10 and 11 and Undefined(b) for
\* every other byte, so never Undefined carrying a defined code.
C24_CodeRoundTrip ==
    /\ op = "Exception::from_code" =>
        /\ arg.code \in DefinedCodes => ret = [variant |-> NamedVariant(arg.code)]
        /\ arg.code \notin DefinedCodes => ret = [variant |-> "Undefined", code |-> arg.code]
        /\ ret.variant = "Undefined" => ret.code \notin DefinedCodes
    /\ op = "Exception::as_code" => ret.code = arg.code

\* 0x7F comes back from Undefined(0x7F).
C24_Witness ==
    /\ op = "Exception::as_code"
    /\ arg.code = 127
    /\ ret.exception = [variant |-> "Undefined", code |-> 127]
    /\ ret.code = 127

\* C25: is_success is true for every Status, Value and Success, true for
\* Exception(Acknowledge) and false for every other exception; for a
\* response decoded from an exception frame it is true exactly when the
\* frame's exception code byte is 5.
C25_IsSuccess ==
    op = "Response::is_success" =>
        /\ ret.response.variant \in {"Status", "Value", "Success"} => ret.success
        /\ ret.response.variant = "Exception" =>
            (ret.success <=> ret.response.exception.variant = "Acknowledge")
        /\ (ret.frame # <<>> /\ BitSet(ret.frame[2], 7)) => (ret.success <=> ret.frame[3] = 5)

\* The frame F3 FF 05 00 00 is decoded and is a success.
C25_Witness ==
    /\ op = "Response::is_success"
    /\ ret.frame = <<243, 255, 5, 0, 0>>
    /\ ret.response = Response_Exception([variant |-> "Acknowledge"])
    /\ ret.success

\* An exception other than Acknowledge is not a success.
C25_WitnessNot ==
    /\ op = "Response::is_success"
    /\ ret.response = Response_Exception([variant |-> "Undefined", code |-> 5])
    /\ ~ret.success

(***************************************************************************)
(* Address space harness: DataStructure::new on an array of addresses,     *)
(* then find and get of an address.                                        *)
(***************************************************************************)
\* The least usize::MAX there is (16-bit pointers); a wider usize wraps
\* further out still.
USIZE_MAX == U16 - 1

\* DataStructure::new: the array, or the panic of validate.
DataStructure_new(addresses) ==
    IF DataStructure_validate(addresses)
    THEN Ok(addresses)
    ELSE Panic("Addresses for data structure must be ordered and unique")

\* a - 1 on usize: a panic with overflow checks, a wrap without.
usize_dec(a, checked) ==
    IF a > 0 THEN Ok(a - 1)
    ELSE IF checked THEN Panic("attempt to subtract with overflow")
    ELSE Ok(USIZE_MAX)

\* The while loop of DataStructure::get.
RECURSIVE GetLoop(_, _, _, _, _)
GetLoop(structure, address, left, right, checked) ==
    IF ~(left <= right) THEN Panic("Address not found in the address list")
    ELSE LET mid == (left + right) \div 2
         IN  IF mid >= Len(structure) THEN Panic("index out of bounds")
             ELSE IF structure[mid + 1] = address THEN Ok(mid)
             ELSE IF structure[mid + 1] < address
                  THEN GetLoop(structure, address, mid + 1, right, checked)
                  ELSE LET next == usize_dec(mid, checked)
                       IN  IF next.ok
                           THEN GetLoop(structure, address, left, next.val, checked)
                           ELSE next

\* DataStructure::get, with what a missing address gives in place of the
\* panic.
DataStructure_get_or_first(structure, address, checked) ==
    IF DataStructure_find(structure, address).some
    THEN Ok(DataStructure_find(structure, address).val)
    ELSE Ok(0)

\* DataStructure::get
DataStructure_get(structure, address, checked) ==
    LET right == usize_dec(Len(structure), checked)
    IN  IF right.ok THEN GetLoop(structure, address, 0, right.val, checked) ELSE right

MaxAddresses == 6

AddressArrays ==
    {<<>>, <<7>>, <<5, 5>>, <<5, 3>>, <<1, 2, 10>>, <<16, 17, 18, 20>>, <<0, U16 - 1>>,
     <<1, 2, 2, 3>>, <<1, 3, 2, 4>>, <<4, 3, 2, 1>>}
    \cup {[i \in 1..n |-> 3 * i] : n \in 2..MaxAddresses}
    \cup {[i \in 1..n |-> IF i = n THEN 3 * (i - 1) ELSE 3 * i] : n \in 2..MaxAddresses}

ProbeAddresses(addresses) ==
    {0, 9, U16 - 1}
    \cup UNION {{addresses[i], addresses[i] + 1, addresses[i] - 1} \cap (0..(U16 - 1)) :
                    i \in 1..Len(addresses)}

InitAddr ==
    /\ op = "addresses"
    /\ \E addresses \in AddressArrays : \E address \in ProbeAddresses(addresses) :
        arg = [addresses |-> addresses, address |-> address]
    /\ ret = None
    /\ MasterParked

CallDataStructureNew ==
    /\ op = "addresses"
    /\ op' = "DataStructure::new"
    /\ ret' = DataStructure_new(arg.addresses)
    /\ UNCHANGED <<arg, masterVars>>

CallFind ==
    /\ op = "DataStructure::new" /\ ret.ok
    /\ op' = "DataStructure::find"
    /\ ret' = [structure |-> ret.val, found |-> DataStructure_find(ret.val, arg.address)]
    /\ UNCHANGED <<arg, masterVars>>

CallGet ==
    /\ op = "DataStructure::new" /\ ret.ok
    /\ op' = "DataStructure::get"
    /\ \E checked \in BOOLEAN :
        ret' = [structure |-> ret.val, index |-> DataStructure_get(ret.val, arg.address, checked)]
    /\ UNCHANGED <<arg, masterVars>>

NextAddr == CallDataStructureNew \/ CallFind \/ CallGet

SpecAddr == InitAddr /\ [][NextAddr]_vars

(***************************************************************************)
(* Address space properties.                                               *)
(***************************************************************************)
StrictlyIncreasing(a) == \A i, j \in 1..Len(a) : i < j => a[i] < a[j]

\* C22: constructing an address space succeeds exactly for the strictly
\* increasing arrays (the empty and the one-element arrays among them) and
\* fails for every array with a duplicate or an out-of-order pair ([5,5] and
\* [5,3] fail, [1,2,10] succeeds); every address space that exists is
\* strictly increasing, and find and get leave its addresses as they were.
C22_StrictlyIncreasing ==
    /\ op = "DataStructure::new" =>
        /\ ret.ok <=> StrictlyIncreasing(arg.addresses)
        /\ ret.ok => ret.val = arg.addresses
        /\ ~ret.ok => ret.err.kind = "panic"
        /\ arg.addresses \in {<<5, 5>>, <<5, 3>>} => ~ret.ok
        /\ arg.addresses \in {<<>>, <<7>>, <<1, 2, 10>>} => ret.ok
    /\ op \in {"DataStructure::find", "DataStructure::get"} =>
        /\ ret.structure = arg.addresses
        /\ \A i \in 1..(Len(ret.structure) - 1) : ret.structure[i] < ret.structure[i + 1]

\* [5,5] is refused.
C22_Witness ==
    /\ op = "DataStructure::new"
    /\ arg.addresses = <<5, 5>>
    /\ ~ret.ok

\* [1,2,10] is constructed and looked into.
C22_WitnessBuilt ==
    /\ op = "DataStructure::find"
    /\ ret.structure = <<1, 2, 10>>

Configured == \E i \in 1..Len(arg.addresses) : arg.addresses[i] = arg.address

\* C23: on a constructed address space find returns Some(i) with
\* addresses[i] the address when the address is configured and None
\* otherwise; get returns that index when the address is configured and
\* panics when it is not (below the first entry, above the last, between
\* entries, or on an empty address space).
C23_FindAndGet ==
    /\ op = "DataStructure::find" =>
        /\ Configured => (ret.found.some /\ arg.addresses[ret.found.val + 1] = arg.address)
        /\ ~Configured => ret.found = None
    /\ op = "DataStructure::get" =>
        /\ Configured => ret.index = Ok(DataStructure_find(arg.addresses, arg.address).val)
        /\ Configured => arg.addresses[ret.index.val + 1] = arg.address
        /\ ~Configured => (~ret.index.ok /\ ret.index.err.kind = "panic")

\* get of an address below the first entry panics.
C23_Witness ==
    /\ op = "DataStructure::get"
    /\ Len(arg.addresses) > 0
    /\ arg.address < arg.addresses[1]
    /\ ~ret.index.ok

\* get on the empty address space panics; get of the last entry returns its
\* index.
C23_WitnessEmpty ==
    /\ op = "DataStructure::get"
    /\ arg.addresses = <<>>
    /\ ~ret.index.ok

C23_WitnessLast ==
    /\ op = "DataStructure::get"
    /\ Len(arg.addresses) = MaxAddresses
    /\ ret.index = Ok(MaxAddresses - 1)

(***************************************************************************)
(* Data<T> and DataConstraint<T>, with T = i32.  A Custom constraint holds *)
(* a function pointer; the model has the one function of the crate's       *)
(* examples, is_even.                                                      *)
(***************************************************************************)
Only(expected) == [kind |-> "Only", expected |-> expected]
Range(min, max) == [kind |-> "Range", min |-> min, max |-> max]
Custom(func) == [kind |-> "Custom", func |-> func]

is_even(val) == val % 2 = 0

\* DataConstraint::validate.
DataConstraint_validate(constraint, value) ==
    CASE constraint.kind = "Only" -> value = constraint.expected
      [] constraint.kind = "Range" -> constraint.min <= value /\ value <= constraint.max
      [] constraint.kind = "Custom" -> is_even(value)

\* Data::new.
Data_new(initial_value) == [value |-> initial_value, constraint |-> None]

\* Data::with_constraint: the value is validated against the constraint the
\* Data already has, then the new constraint is stored.
Data_with_constraint(self, constraint) ==
    IF self.constraint.some /\ ~DataConstraint_validate(self.constraint.val, self.value)
    THEN Err(Unit)
    ELSE Ok([self EXCEPT !.constraint = Some(constraint)])

\* Data::set_value: self after the call, and what the call returns.
Data_set_value(self, value) ==
    IF self.constraint.some /\ ~DataConstraint_validate(self.constraint.val, value)
    THEN [self |-> self, result |-> Err(Unit)]
    ELSE [self |-> [self EXCEPT !.value = value], result |-> Ok(Unit)]

(***************************************************************************)
(* Data harness: one Data, built by Data::new and then taken through up to *)
(* MaxDataCalls calls of with_constraint and set_value.  arg.data is the   *)
(* Data the caller holds (Data is Copy: a with_constraint that fails       *)
(* leaves the caller its copy), ret the last call.                         *)
(***************************************************************************)
MaxValue == 2
MaxDataCalls == 3

DataValues == (0 - MaxValue)..MaxValue

DataConstraints ==
    {Only(v) : v \in DataValues}
    \cup {Range(min, max) : min \in DataValues, max \in DataValues}
    \cup {Custom("is_even")}

DataOps == {"Data::new", "Data::with_constraint", "Data::set_value"}

InitData ==
    /\ op = "data"
    /\ arg = [calls |-> 0]
    /\ ret = None
    /\ MasterParked

CallDataNew ==
    /\ op = "data"
    /\ op' = "Data::new"
    /\ \E initial_value \in DataValues :
        /\ arg' = [data |-> Data_new(initial_value), calls |-> 0]
        /\ ret' = [input |-> initial_value]
    /\ UNCHANGED masterVars

CallWithConstraint ==
    /\ op \in DataOps /\ arg.calls < MaxDataCalls
    /\ op' = "Data::with_constraint"
    /\ \E constraint \in DataConstraints :
        LET built == Data_with_constraint(arg.data, constraint)
        IN  /\ arg' = [data |-> IF built.ok THEN built.val ELSE arg.data,
                       calls |-> arg.calls + 1]
            /\ ret' = [before |-> arg.data, input |-> constraint, result |-> built]
    /\ UNCHANGED masterVars

CallSetValue ==
    /\ op \in DataOps /\ arg.calls < MaxDataCalls
    /\ op' = "Data::set_value"
    /\ \E value \in DataValues :
        LET set == Data_set_value(arg.data, value)
        IN  /\ arg' = [data |-> set.self, calls |-> arg.calls + 1]
            /\ ret' = [before |-> arg.data, input |-> value, result |-> set.result]
    /\ UNCHANGED masterVars

NextData == CallDataNew \/ CallWithConstraint \/ CallSetValue

SpecData == InitData /\ [][NextData]_vars

(***************************************************************************)
(* Data properties.                                                        *)
(***************************************************************************)
Constrained(data) == data.constraint.some

Satisfied(data) == DataConstraint_validate(data.constraint.val, data.value)

Violating(data, value) ==
    Constrained(data) /\ ~DataConstraint_validate(data.constraint.val, value)

\* C30: after any sequence of Data::new, with_constraint and set_value, a
\* Data that has a constraint holds a value that satisfies it; set_value
\* with a value that violates the constraint returns Err and leaves the
\* stored value as it was.
C30_ConstraintHolds ==
    /\ op \in DataOps /\ Constrained(arg.data) => Satisfied(arg.data)
    /\ op = "Data::set_value" /\ Violating(ret.before, ret.input) =>
        /\ ret.result = Err(Unit)
        /\ arg.data = ret.before

\* The half of C30 about set_value, and what set_value keeps: it refuses a
\* violating value and changes nothing, and the value it does store
\* satisfies the constraint the Data has.
C30_SetValueGuarded ==
    op = "Data::set_value" =>
        /\ Violating(ret.before, ret.input) =>
            (ret.result = Err(Unit) /\ arg.data = ret.before)
        /\ ~Violating(ret.before, ret.input) =>
            (ret.result = Ok(Unit) /\ arg.data = [ret.before EXCEPT !.value = ret.input])
        /\ ret.result.ok /\ Constrained(arg.data) => Satisfied(arg.data)

\* with_constraint never looks at the constraint it is given: on a Data
\* without a constraint it always succeeds.
C30_WithConstraintUnchecked ==
    op = "Data::with_constraint" /\ ~Constrained(ret.before) =>
        ret.result = Ok([ret.before EXCEPT !.constraint = Some(ret.input)])

\* Data::new(v).with_constraint(c) with v outside c: Ok, and the Data holds v.
C30_WitnessUnsatisfied ==
    /\ op = "Data::with_constraint"
    /\ arg.calls = 1
    /\ ret.result.ok
    /\ Constrained(arg.data) /\ ~Satisfied(arg.data)

\* set_value refused a violating value.
C30_WitnessRefused ==
    /\ op = "Data::set_value"
    /\ Violating(ret.before, ret.input)
    /\ ret.result = Err(Unit)

====
